---- MODULE Spec2Model ----
(***************************************************************************)
(* A model of shapeio's text codec: the decoder (src/shapeio/decoder.py)   *)
(* and the encoder (src/shapeio/encoder.py).                               *)
(*                                                                         *)
(* A text is a sequence of characters, each a one-character string.  The   *)
(* regular expressions of the decoder are kept as syntax trees, one node   *)
(* per element of the pattern literal, and are run by a backtracking       *)
(* matcher with the priorities of Python's re module (greedy and lazy      *)
(* quantifiers, ordered alternation, groups).                              *)
(***************************************************************************)
EXTENDS Integers, Sequences, FiniteSets, TLC

VARIABLES
    pc,         \* the position of the running call
    inp,        \* the call's argument: a value to encode or the parameters of a text
    text,       \* the text being decoded, or the text an encoder produced
    res,        \* the result of the last call: a value or the error raised
    attempted,  \* the block parsers _ShapeParser.parse has invoked, in order
    tables,     \* the tables _ShapeParser.parse has collected so far
    files,      \* the file system: the content of the file at each path
    calls       \* the calls made on files and on the compression helper, in order

vars == <<pc, inp, text, res, attempted, tables, files, calls>>

\* the paths of the file system; "tmp" is the file tempfile.NamedTemporaryFile makes
Paths == {"a.s", "b.s", "tmp"}

\* no file at a path, and a file of the given bytes
NoFile == [exists |-> FALSE, bytes |-> <<>>]

File(bytes) == [exists |-> TRUE, bytes |-> bytes]

NoFiles == [p \in Paths |-> NoFile]

(***************************************************************************)
(* Characters                                                              *)
(***************************************************************************)
DigitSeq == <<"0", "1", "2", "3", "4", "5", "6", "7", "8", "9">>

DIGIT == {"0", "1", "2", "3", "4", "5", "6", "7", "8", "9"}

LOWER == {"a", "b", "c", "d", "e", "f", "g", "h", "i", "j", "k", "l", "m",
          "n", "o", "p", "q", "r", "s", "t", "u", "v", "w", "x", "y", "z"}

UPPER == {"A", "B", "C", "D", "E", "F", "G", "H", "I", "J", "K", "L", "M",
          "N", "O", "P", "Q", "R", "S", "T", "U", "V", "W", "X", "Y", "Z"}

\* \s of the re module, for the characters of the model
SPACE == {" ", "\t", "\n", "\r"}
\* every character a text of the model may hold; "BOM" stands for the one
\* character U+FEFF
ALPHABET == DIGIT \cup LOWER \cup UPPER \cup SPACE
               \cup {"(", ")", "_", "-", "+", ".", "@", "#", "BOM"}

\* the lowercase letter of each uppercase letter
LowerOf == [A |-> "a", B |-> "b", C |-> "c", D |-> "d", E |-> "e",
            F |-> "f", G |-> "g", H |-> "h", I |-> "i", J |-> "j",
            K |-> "k", L |-> "l", M |-> "m", N |-> "n", O |-> "o",
            P |-> "p", Q |-> "q", R |-> "r", S |-> "s", T |-> "t",
            U |-> "u", V |-> "v", W |-> "w", X |-> "x", Y |-> "y", Z |-> "z"]

\* the uppercase letter of each lowercase letter
UpperOf == [a |-> "A", b |-> "B", c |-> "C", d |-> "D", e |-> "E",
            f |-> "F", g |-> "G", h |-> "H", i |-> "I", j |-> "J",
            k |-> "K", l |-> "L", m |-> "M", n |-> "N", o |-> "O",
            p |-> "P", q |-> "Q", r |-> "R", s |-> "S", t |-> "T",
            u |-> "U", v |-> "V", w |-> "W", x |-> "X", y |-> "Y", z |-> "Z"]

\* str.lower() on one character
LowerChar(c) == IF c \in UPPER THEN LowerOf[c] ELSE c

\* str.upper() on one character
UpperChar(c) == IF c \in LOWER THEN UpperOf[c] ELSE c

\* str.lower()
Lower(s) == [k \in DOMAIN s |-> LowerChar(s[k])]

RECURSIVE LStripLen(_, _)
LStripLen(s, i) ==
    IF i <= Len(s) /\ s[i] \in SPACE THEN LStripLen(s, i + 1) ELSE i

RECURSIVE RStripLen(_, _)
RStripLen(s, j) ==
    IF j >= 1 /\ s[j] \in SPACE THEN RStripLen(s, j - 1) ELSE j

\* str.strip()
Strip(s) == SubSeq(s, LStripLen(s, 1), RStripLen(s, Len(s)))

\* the positions from i on, in increasing order, where s holds a character of set
Positions(s, set, i) ==
    SelectSeq([k \in 1..(Len(s) - i + 1) |-> i + k - 1], LAMBDA k : s[k] \in set)

\* str.find(c, start) with 1-based positions; 0 when absent (Python's -1)
Find(s, c, i) ==
    IF \E k \in i..Len(s) : s[k] = c
    THEN CHOOSE k \in i..Len(s) : s[k] = c /\ \A j \in i..(k - 1) : s[j] # c
    ELSE 0

\* str.rfind(c) with 1-based positions; 0 when absent (Python's -1)
RFind(s, c) ==
    IF \E k \in DOMAIN s : s[k] = c
    THEN CHOOSE k \in DOMAIN s : s[k] = c /\ \A j \in (k + 1)..Len(s) : s[j] # c
    ELSE 0

\* " ".join(parts) and "\n".join(parts)
RECURSIVE Join(_, _)
Join(sep, parts) ==
    IF parts = <<>> THEN <<>>
    ELSE IF Len(parts) = 1 THEN parts[1]
    ELSE parts[1] \o sep \o Join(sep, Tail(parts))

RECURSIVE Repeat(_, _)
Repeat(s, n) == IF n <= 0 THEN <<>> ELSE s \o Repeat(s, n - 1)

(***************************************************************************)
(* The keywords of the grammar, as texts                                   *)
(***************************************************************************)
W == [
    shape_header |-> <<"s", "h", "a", "p", "e", "_", "h", "e", "a", "d", "e",
        "r">>,
    volumes |-> <<"v", "o", "l", "u", "m", "e", "s">>,
    shader_names |-> <<"s", "h", "a", "d", "e", "r", "_", "n", "a", "m", "e",
        "s">>,
    texture_filter_names |-> <<"t", "e", "x", "t", "u", "r", "e", "_", "f",
        "i", "l", "t", "e", "r", "_", "n", "a", "m", "e", "s">>,
    points |-> <<"p", "o", "i", "n", "t", "s">>,
    uv_points |-> <<"u", "v", "_", "p", "o", "i", "n", "t", "s">>,
    normals |-> <<"n", "o", "r", "m", "a", "l", "s">>,
    sort_vectors |-> <<"s", "o", "r", "t", "_", "v", "e", "c", "t", "o", "r",
        "s">>,
    colours |-> <<"c", "o", "l", "o", "u", "r", "s">>,
    matrices |-> <<"m", "a", "t", "r", "i", "c", "e", "s">>,
    images |-> <<"i", "m", "a", "g", "e", "s">>,
    textures |-> <<"t", "e", "x", "t", "u", "r", "e", "s">>,
    light_materials |-> <<"l", "i", "g", "h", "t", "_", "m", "a", "t", "e",
        "r", "i", "a", "l", "s">>,
    light_model_cfgs |-> <<"l", "i", "g", "h", "t", "_", "m", "o", "d", "e",
        "l", "_", "c", "f", "g", "s">>,
    vtx_states |-> <<"v", "t", "x", "_", "s", "t", "a", "t", "e", "s">>,
    prim_states |-> <<"p", "r", "i", "m", "_", "s", "t", "a", "t", "e", "s">>,
    lod_controls |-> <<"l", "o", "d", "_", "c", "o", "n", "t", "r", "o", "l",
        "s">>,
    uv_ops |-> <<"u", "v", "_", "o", "p", "s">>,
    tex_idxs |-> <<"t", "e", "x", "_", "i", "d", "x", "s">>,
    vector |-> <<"v", "e", "c", "t", "o", "r">>,
    vol_sphere |-> <<"v", "o", "l", "_", "s", "p", "h", "e", "r", "e">>,
    named_shader |-> <<"n", "a", "m", "e", "d", "_", "s", "h", "a", "d", "e",
        "r">>,
    named_filter_mode |-> <<"n", "a", "m", "e", "d", "_", "f", "i", "l", "t",
        "e", "r", "_", "m", "o", "d", "e">>,
    point |-> <<"p", "o", "i", "n", "t">>,
    uv_point |-> <<"u", "v", "_", "p", "o", "i", "n", "t">>,
    colour |-> <<"c", "o", "l", "o", "u", "r">>,
    matrix |-> <<"m", "a", "t", "r", "i", "x">>,
    image |-> <<"i", "m", "a", "g", "e">>,
    texture |-> <<"t", "e", "x", "t", "u", "r", "e">>,
    light_material |-> <<"l", "i", "g", "h", "t", "_", "m", "a", "t", "e", "r",
        "i", "a", "l">>,
    uv_op_ |-> <<"u", "v", "_", "o", "p", "_">>,
    light_model_cfg |-> <<"l", "i", "g", "h", "t", "_", "m", "o", "d", "e",
        "l", "_", "c", "f", "g">>,
    vtx_state |-> <<"v", "t", "x", "_", "s", "t", "a", "t", "e">>,
    prim_state |-> <<"p", "r", "i", "m", "_", "s", "t", "a", "t", "e">>,
    shape |-> <<"s", "h", "a", "p", "e">>,
    copy |-> <<"c", "o", "p", "y">>,
    reflectmapfull |-> <<"r", "e", "f", "l", "e", "c", "t", "m", "a", "p", "f",
        "u", "l", "l">>,
    reflectmap |-> <<"r", "e", "f", "l", "e", "c", "t", "m", "a", "p">>,
    uniformscale |-> <<"u", "n", "i", "f", "o", "r", "m", "s", "c", "a", "l",
        "e">>,
    nonuniformscale |-> <<"n", "o", "n", "u", "n", "i", "f", "o", "r", "m",
        "s", "c", "a", "l", "e">>,
    dlevel_selection |-> <<"d", "l", "e", "v", "e", "l", "_", "s", "e", "l",
        "e", "c", "t", "i", "o", "n">>,
    distance_level_header |-> <<"d", "i", "s", "t", "a", "n", "c", "e", "_",
        "l", "e", "v", "e", "l", "_", "h", "e", "a", "d", "e", "r">>,
    hierarchy |-> <<"h", "i", "e", "r", "a", "r", "c", "h", "y">>,
    distance_level |-> <<"d", "i", "s", "t", "a", "n", "c", "e", "_", "l",
        "e", "v", "e", "l">>,
    distance_levels_header |-> <<"d", "i", "s", "t", "a", "n", "c", "e", "_",
        "l", "e", "v", "e", "l", "s", "_", "h", "e", "a", "d", "e", "r">>,
    lod_control |-> <<"l", "o", "d", "_", "c", "o", "n", "t", "r", "o", "l">>,
    distance_levels |-> <<"d", "i", "s", "t", "a", "n", "c", "e", "_", "l",
        "e", "v", "e", "l", "s">>
]

(***************************************************************************)
(* Regular expressions: the nodes of a pattern                             *)
(***************************************************************************)
INF == 0 - 1

\* a literal word
Lit(w) == <<[k |-> "lit", w |-> w]>>

\* a character class with a quantifier: between lo and hi characters of set
Rep(set, lo, hi, lazy) ==
    <<[k |-> "rep", set |-> set, lo |-> lo, hi |-> hi, lazy |-> lazy]>>

One(set)  == Rep(set, 1, 1, FALSE)
Opt(set)  == Rep(set, 0, 1, FALSE)
Star(set) == Rep(set, 0, INF, FALSE)
Plus(set) == Rep(set, 1, INF, FALSE)
PlusLazy(set) == Rep(set, 1, INF, TRUE)
StarLazy(set) == Rep(set, 0, INF, TRUE)

\* (?: body ){lo,hi}, greedy
Grp(body, lo, hi) == <<[k |-> "grp", body |-> body, lo |-> lo, hi |-> hi]>>

\* (?: a | b )
Alt(a, b) == <<[k |-> "alt", a |-> a, b |-> b]>>

\* ( body ): capturing group g
Cap(g, body) == <<[k |-> "open", g |-> g]>> \o body \o <<[k |-> "close", g |-> g]>>

\* the end of the text, which fullmatch() demands
EOS == <<[k |-> "eos"]>>

\* the classes the patterns use
cD == DIGIT                                     \* \d
cS == SPACE                                     \* \s
cW == DIGIT \cup LOWER \cup UPPER \cup {"_"}    \* \w
cNotS == ALPHABET \ SPACE                       \* \S
cDot == ALPHABET \ {"\n"}                       \* .
cHex == DIGIT \cup {"a", "b", "c", "d", "e", "f", "A", "B", "C", "D", "E", "F"}
cNum == DIGIT \cup {"-", "+", "e", "E", "."}    \* [-+eE\d\.]
cNotParen == ALPHABET \ {"(", ")"}              \* [^()]

(***************************************************************************)
(* The matcher                                                             *)
(***************************************************************************)
NoMatch == [ok |-> FALSE, start |-> 0, end |-> 0, caps |-> <<>>]

NoCaps == [g \in 1..8 |-> [s |-> 0, e |-> 0]]

\* Let(x, Body) is Body(x): x is worked out once, whatever the number of
\* places where Body reads it
Let(x, Body(_)) == Body(x)

\* whether character c is in class set; ic is re.IGNORECASE
InClass(c, set, ic) ==
    \/ c \in set
    \/ ic /\ (LowerChar(c) \in set \/ UpperChar(c) \in set)

\* the text is scanned Window characters at a time
Window == 16

RECURSIVE Run(_, _, _, _, _)
\* how many characters of class set follow position i, at most hi of them
Run(t, i, set, ic, hi) ==
    Let(IF i + Window - 1 < Len(t) THEN i + Window - 1 ELSE Len(t), LAMBDA last :
    Let(SelectSeq([k \in 1..(last - i + 1) |-> i + k - 1],
                  LAMBDA k : ~InClass(t[k], set, ic)), LAMBDA stops :
    Let(IF stops # <<>> THEN stops[1] - i
        ELSE IF last < Len(t) THEN last + 1 - i + Run(t, last + 1, set, ic, INF)
        ELSE last + 1 - i, LAMBDA avail :
    IF hi # INF /\ hi < avail THEN hi ELSE avail)))

\* the word w stands at position i of t
LitAt(w, t, i, ic) ==
    /\ i + Len(w) <= Len(t) + 1
    /\ InClass(t[i], {w[1]}, ic)
    /\ IF ic THEN Lower(SubSeq(t, i, i + Len(w) - 1)) = Lower(w)
             ELSE SubSeq(t, i, i + Len(w) - 1) = w

RECURSIVE Flat(_, _, _)
\* the concatenation of the sequences seqs[lo], ..., seqs[hi]
Flat(seqs, lo, hi) ==
    IF lo > hi THEN <<>>
    ELSE IF lo = hi THEN seqs[lo]
    ELSE Flat(seqs, lo, (lo + hi) \div 2) \o Flat(seqs, (lo + hi) \div 2 + 1, hi)

(***************************************************************************)
(* A state of the matcher is a position in the text and the groups        *)
(* captured so far.  MS gives every way the matcher can get through a      *)
(* pattern from a state, in the order in which backtracking tries them:    *)
(* the first one that reaches the end of the pattern is the match.         *)
(***************************************************************************)
RECURSIVE MS(_, _, _, _)
RECURSIVE Node(_, _, _, _)

\* the states after pattern re, from each of states
MS(re, t, ic, states) ==
    IF states = <<>> \/ re = <<>> THEN states
    ELSE IF Len(re) = 1
    THEN Flat([k \in DOMAIN states |-> Node(re[1], t, ic, states[k])], 1, Len(states))
    ELSE MS(SubSeq(re, Len(re) \div 2 + 1, Len(re)), t, ic,
            MS(SubSeq(re, 1, Len(re) \div 2), t, ic, states))

\* the states after node n, from state st
Node(n, t, ic, st) ==
    CASE n.k = "lit" ->
           IF LitAt(n.w, t, st.i, ic) THEN <<[st EXCEPT !.i = st.i + Len(n.w)]>> ELSE <<>>
      [] n.k = "rep" ->
           \* greedy: the longest run first; lazy: the shortest first
           Let(Run(t, st.i, n.set, ic, n.hi), LAMBDA avail :
               IF avail < n.lo THEN <<>>
               ELSE [j \in 1..(avail - n.lo + 1) |->
                        [st EXCEPT !.i = st.i + (IF n.lazy THEN n.lo + j - 1
                                                           ELSE avail - j + 1)]])
      [] n.k = "grp" ->
           \* one more round of the body first, then none
           IF n.hi = 0 THEN <<st>>
           ELSE Let(SelectSeq(MS(n.body, t, ic, <<st>>), LAMBDA x : x.i > st.i),
                    LAMBDA once :
                    Flat([k \in DOMAIN once |->
                             Node([n EXCEPT !.lo = IF n.lo > 0 THEN n.lo - 1 ELSE 0,
                                            !.hi = IF n.hi = INF THEN INF ELSE n.hi - 1],
                                  t, ic, once[k])], 1, Len(once))
                    \o (IF n.lo = 0 THEN <<st>> ELSE <<>>))
      [] n.k = "alt" -> MS(n.a, t, ic, <<st>>) \o MS(n.b, t, ic, <<st>>)
      [] n.k = "open" -> <<[st EXCEPT !.caps[n.g] = [s |-> st.i, e |-> 0]]>>
      [] n.k = "close" -> <<[st EXCEPT !.caps[n.g].e = st.i]>>
      [] n.k = "eos" -> IF st.i = Len(t) + 1 THEN <<st>> ELSE <<>>

\* pattern.match(t) from position i: the first of the ways through re, in
\* the matcher's priority order
MatchAt(re, t, i, ic) ==
    Let(MS(re, t, ic, <<[i |-> i, caps |-> NoCaps]>>), LAMBDA r :
        IF r = <<>> THEN NoMatch
        ELSE [ok |-> TRUE, start |-> i, end |-> r[1].i, caps |-> r[1].caps])

\* pattern.match(t)
ReMatch(re, t, ic) == MatchAt(re, t, 1, ic)

\* pattern.fullmatch(t)
ReFullMatch(re, t, ic) == MatchAt(re \o EOS, t, 1, ic)

RECURSIVE FirstHit(_, _, _, _, _, _)
\* the first match of re at one of the positions cands[lo], ..., cands[hi],
\* NoMatch when it matches at none of them
FirstHit(re, t, ic, cands, lo, hi) ==
    IF lo > hi THEN NoMatch
    ELSE IF lo = hi THEN MatchAt(re, t, cands[lo], ic)
    ELSE IF \E k \in lo..((lo + hi) \div 2) : MatchAt(re, t, cands[k], ic).ok
    THEN FirstHit(re, t, ic, cands, lo, (lo + hi) \div 2)
    ELSE FirstHit(re, t, ic, cands, (lo + hi) \div 2 + 1, hi)

\* the positions from i on where a match of re can start: a pattern that
\* begins with a word can only match where the word stands
Candidates(re, t, i, ic) ==
    IF re[1].k = "lit"
    THEN SelectSeq(Positions(t, IF ic THEN {LowerChar(re[1].w[1]), UpperChar(re[1].w[1])}
                                      ELSE {re[1].w[1]}, i),
                   LAMBDA k : LitAt(re[1].w, t, k, ic))
    ELSE [k \in 1..(Len(t) + 2 - i) |-> i + k - 1]

\* pattern.search(t, pos): the leftmost match starting at i or later
SearchFrom(re, t, i, ic) ==
    Let(Candidates(re, t, i, ic), LAMBDA cands : FirstHit(re, t, ic, cands, 1, Len(cands)))

\* pattern.search(t)
ReSearch(re, t, ic) == SearchFrom(re, t, 1, ic)

RECURSIVE FindIterFrom(_, _, _, _)
\* list(pattern.finditer(t)): the successive non-overlapping matches
FindIterFrom(re, t, i, ic) ==
    Let(SearchFrom(re, t, i, ic), LAMBDA r :
        IF ~r.ok THEN <<>>
        ELSE <<r>> \o FindIterFrom(re, t, IF r.end = r.start THEN r.end + 1 ELSE r.end, ic))

ReFindIter(re, t, ic) == FindIterFrom(re, t, 1, ic)

\* match.group(0)
Group0(t, m) == SubSeq(t, m.start, m.end - 1)

\* whether match.group(g) is not None
HasGroup(m, g) == m.caps[g].s # 0 /\ m.caps[g].e # 0

\* match.group(g)
Group(t, m, g) == SubSeq(t, m.caps[g].s, m.caps[g].e - 1)

(***************************************************************************)
(* Results: a returned value, or the exception raised                      *)
(***************************************************************************)
Ok(v) == [ok |-> TRUE, val |-> v, err |-> "", msg |-> "", name |-> ""]

\* raise err(msg), the message written for block or record name
Raise(err, msg, name) ==
    [ok |-> FALSE, val |-> <<>>, err |-> err, msg |-> msg, name |-> name]

\* the first result of rs that is an exception, rs holding one
FirstError(rs) == rs[CHOOSE k \in DOMAIN rs :
                        ~rs[k].ok /\ \A j \in 1..(k - 1) : rs[j].ok]

AllOk(rs) == \A k \in DOMAIN rs : rs[k].ok

Vals(rs) == [k \in DOMAIN rs |-> rs[k].val]

\* the record made of the parsed fields, or the first error among them
Build(fields, Record(_)) ==
    IF AllOk(fields) THEN Ok(Record(Vals(fields))) ELSE FirstError(fields)

(***************************************************************************)
(* Python values.  A value carries its type, which the isinstance checks   *)
(* of the encoder read: an int, a float, a str and None are records; an    *)
(* object of a class of shape.py is a record of its fields; a list is a    *)
(* sequence.                                                               *)
(***************************************************************************)
PyInt(n) == [type |-> "int", v |-> n]

PyStr(s) == [type |-> "str", s |-> s]

\* the absent value of an optional field
None == [type |-> "None"]

(***************************************************************************)
(* Numbers                                                                 *)
(***************************************************************************)
DigitVal(c) == (CHOOSE k \in DOMAIN DigitSeq : DigitSeq[k] = c) - 1

RECURSIVE DigitsVal(_, _)
\* the number a run of decimal digits writes, after the digits read as acc
DigitsVal(ds, acc) ==
    IF ds = <<>> THEN acc ELSE DigitsVal(Tail(ds), 10 * acc + DigitVal(Head(ds)))

RECURSIVE NatStr(_)
\* str(n) for n >= 0
NatStr(n) ==
    IF n < 10 THEN <<DigitSeq[n + 1]>>
    ELSE NatStr(n \div 10) \o <<DigitSeq[(n % 10) + 1]>>

\* str(n)
IntStr(n) == IF n < 0 THEN <<"-">> \o NatStr(0 - n) ELSE NatStr(n)

\* int(text) for a text that IntParser.PATTERN matched
IntVal(t) ==
    IF Head(t) = "-" THEN 0 - DigitsVal(Tail(t), 0) ELSE DigitsVal(t, 0)

(***************************************************************************)
(* A float is kept as the decimal number m * 10^e with m not a multiple of *)
(* 10 (0 is m = 0, e = 0): the values float() reads from a decimal text    *)
(* of at most 6 significant digits and format(v, ".6g") writes back.       *)
(***************************************************************************)
RECURSIVE PyFloat(_, _)
\* the float m * 10^e
PyFloat(m, e) ==
    IF m = 0 THEN [type |-> "float", m |-> 0, e |-> 0]
    ELSE IF m % 10 = 0 THEN PyFloat(m \div 10, e + 1)
    ELSE [type |-> "float", m |-> m, e |-> e]

\* float(text) for a text that FloatParser.PATTERN matched
FloatVal(t) ==
    Let(IF t[1] \in {"-", "+"} THEN Tail(t) ELSE t, LAMBDA body :
    Let(IF Find(body, "e", 1) # 0 THEN Find(body, "e", 1) ELSE Find(body, "E", 1),
        LAMBDA epos :
    Let(IF epos = 0 THEN body ELSE SubSeq(body, 1, epos - 1), LAMBDA mant :
    Let(IF epos = 0 THEN 0
        ELSE IF body[epos + 1] = "+" THEN IntVal(SubSeq(body, epos + 2, Len(body)))
        ELSE IntVal(SubSeq(body, epos + 1, Len(body))), LAMBDA ex :
    Let(Find(mant, ".", 1), LAMBDA dot :
    Let(IF dot = 0 THEN <<>> ELSE SubSeq(mant, dot + 1, Len(mant)), LAMBDA fp :
    Let(DigitsVal((IF dot = 0 THEN mant ELSE SubSeq(mant, 1, dot - 1)) \o fp, 0),
        LAMBDA mag :
        PyFloat(IF t[1] = "-" THEN 0 - mag ELSE mag, ex - Len(fp)))))))))

RECURSIVE Pow10(_)
Pow10(n) == IF n <= 0 THEN 1 ELSE 10 * Pow10(n - 1)

\* the rounding of format(v, ".6g"): v as it is when it has at most 6
\* significant digits, else its first 6 digits, the last of them raised by
\* one when the digits dropped are more than half a unit of it, or are
\* half a unit and it is odd (v is a whole number the float holds exactly)
Round6(v) ==
    Let(IF v.m < 0 THEN 0 - v.m ELSE v.m, LAMBDA mag :
    Let(Len(NatStr(mag)) - 6, LAMBDA k :
        IF k <= 0 THEN v
        ELSE Let((mag \div Pow10(k))
                 + (IF 2 * (mag % Pow10(k)) > Pow10(k)
                       \/ (2 * (mag % Pow10(k)) = Pow10(k) /\ (mag \div Pow10(k)) % 2 = 1)
                    THEN 1 ELSE 0), LAMBDA q :
                 PyFloat(IF v.m < 0 THEN 0 - q ELSE q, v.e + k))))

\* a variant that writes a whole number as repr does, with .0 after it
FloatStr_repr(v) ==
    IF v.m = 0 THEN <<"0", ".", "0">>
    ELSE NatStr(IF v.m < 0 THEN 0 - v.m ELSE v.m) \o <<".", "0">>

\* format(v, ".6g") for v of at most 6 significant digits; ds are the
\* digits of v and x is the exponent of the leading one
FloatStr(v) ==
    IF v.m = 0 THEN <<"0">>
    ELSE
    Let(NatStr(IF v.m < 0 THEN 0 - v.m ELSE v.m), LAMBDA ds :
    Let(v.e + Len(ds) - 1, LAMBDA x :
    Let(IF v.m < 0 THEN <<"-">> ELSE <<>>, LAMBDA sign :
        IF x < 0 - 4 \/ x >= 6
        THEN sign \o <<ds[1]>>
                  \o (IF Len(ds) > 1 THEN <<".">> \o Tail(ds) ELSE <<>>)
                  \o <<"e", IF x < 0 THEN "-" ELSE "+">>
                  \o (IF x > 0 - 10 /\ x < 10 THEN <<"0">> ELSE <<>>)
                  \o NatStr(IF x < 0 THEN 0 - x ELSE x)
        ELSE IF x >= Len(ds) - 1
        THEN sign \o ds \o Repeat(<<"0">>, x - (Len(ds) - 1))
        ELSE IF x >= 0
        THEN sign \o SubSeq(ds, 1, x + 1) \o <<".">> \o SubSeq(ds, x + 2, Len(ds))
        ELSE sign \o <<"0", ".">> \o Repeat(<<"0">>, 0 - x - 1) \o ds)))

(***************************************************************************)
(* decoder.py: block location                                              *)
(***************************************************************************)
ws0 == Star(cS)     \* \s*
ws1 == Plus(cS)     \* \s+
LP == Lit(<<"(">>)  \* \(
RP == Lit(<<")">>)  \* \)
rInt == Opt({"-"}) \o Plus(cD)    \* -?\d+
rNum == Plus(cNum)                \* [-+eE\d\.]+
rHexs == Plus(cHex)               \* [a-fA-F0-9]+
rDec == Opt({"-"}) \o Plus(cD) \o Grp(Lit(<<".">>) \o Plus(cD), 0, 1)  \* -?\d+(?:\.\d+)?

\* rf'{re.escape(block_name)}\s*\(\s*\d+'
header_pattern(block_name) == Lit(block_name) \o ws0 \o LP \o ws0 \o Plus(cD)

\* _Parser._find_header_start_idx: the position of the header, 0 for None
find_header_start_idx(t, block_name) ==
    Let(ReSearch(header_pattern(block_name), t, TRUE), LAMBDA match :
        IF ~match.ok THEN 0 ELSE match.start)

RECURSIVE scan_depth_eof(_, _, _)
\* a scan that takes the end of the text for the closing parenthesis
scan_depth_eof(t, ps, depth) ==
    IF ps = <<>> THEN Len(t)
    ELSE IF t[Head(ps)] = "(" THEN scan_depth_eof(t, Tail(ps), depth + 1)
    ELSE IF depth - 1 = 0 THEN Head(ps)
    ELSE scan_depth_eof(t, Tail(ps), depth - 1)

RECURSIVE scan_depth(_, _, _)
\* the while loop of _find_block over the positions ps that hold a
\* parenthesis (the loop steps over every other character, which changes
\* nothing): the position of the parenthesis that brings depth back to 0,
\* or 0 when the text ends first
scan_depth(t, ps, depth) ==
    IF ps = <<>> THEN 0
    ELSE IF t[Head(ps)] = "(" THEN scan_depth(t, Tail(ps), depth + 1)
    ELSE IF depth - 1 = 0 THEN Head(ps)
    ELSE scan_depth(t, Tail(ps), depth - 1)

\* a _find_block whose span runs to the last closing parenthesis of the text
find_block_greedy(t, block_name, nm) ==
    Let(find_header_start_idx(t, block_name), LAMBDA start_idx :
        IF start_idx = 0 THEN Raise("ValueError", "No valid block header found", nm)
        ELSE IF Find(t, "(", start_idx) = 0
        THEN Raise("ValueError", "Malformed block: no opening (", nm)
        ELSE IF RFind(t, ")") < start_idx
        THEN Raise("ValueError", "Unbalanced parentheses", nm)
        ELSE Ok(SubSeq(t, start_idx, RFind(t, ")"))))

\* _Parser._find_block
find_block(t, block_name, nm) ==
    Let(find_header_start_idx(t, block_name), LAMBDA start_idx :
        IF start_idx = 0 THEN Raise("ValueError", "No valid block header found", nm)
        ELSE
    Let(Find(t, "(", start_idx), LAMBDA open_parenthesis_idx :
        IF open_parenthesis_idx = 0
        THEN Raise("ValueError", "Malformed block: no opening (", nm)
        ELSE
    Let(scan_depth(t, Positions(t, {"(", ")"}, open_parenthesis_idx), 0),
        LAMBDA close_idx :
        IF close_idx = 0 THEN Raise("ValueError", "Unbalanced parentheses", nm)
        ELSE Ok(SubSeq(t, start_idx, close_idx)))))

(***************************************************************************)
(* decoder.py: the list parser                                             *)
(***************************************************************************)
\* rf'{re.escape(self.list_name)}\s*\(\s*(\d+)'
list_header_pattern(list_name) ==
    Lit(list_name) \o ws0 \o LP \o ws0 \o Cap(1, Plus(cD))

\* the items list(self.item_pattern.finditer(body)) matches, as texts
list_matches(body, item_pattern, ic) ==
    Let(ReFindIter(item_pattern, body, ic), LAMBDA ms :
        [k \in DOMAIN ms |-> Group0(body, ms[k])])

\* len(matches) != count, the items the pattern finds against the count the
\* header declares; count_mismatch_never is a parser that skips the check
count_mismatch_never(matches, count) == FALSE

count_mismatch(matches, count) == Len(matches) # count

\* _ListParser.parse up to its return statement, for the list parser of
\* list_name (nm in messages) with item pattern item_pattern (ic: its
\* re.IGNORECASE): the texts m.group(0) of the matches, their number checked
\* against the count.  The return statement
\*     [self.item_parser.parse(m.group(0)) for m in matches]
\* is ListParser_return, given the item parser's results on these texts.
ListParser_matches(list_name, nm, item_pattern, ic, t0) ==
    Let(Strip(t0), LAMBDA t :
    Let(ReMatch(list_header_pattern(list_name), t, FALSE), LAMBDA header_match :
        IF ~header_match.ok THEN Raise("ValueError", "Invalid block header", nm)
        ELSE
    Let(IntVal(Group(t, header_match, 1)), LAMBDA count :
    Let(RFind(t, ")"), LAMBDA body_end :
        IF body_end = 0
        THEN IF count = 0 THEN Ok(<<>>)
             ELSE Raise("ValueError", "Malformed block structure", nm)
        ELSE
    Let(list_matches(Strip(SubSeq(t, header_match.end, body_end - 1)), item_pattern, ic),
        LAMBDA matches :
        IF count_mismatch(matches, count)
        THEN Raise("ValueError", "Expected count items", nm)
        ELSE Ok(matches))))))

\* the list of the parsed items, or the error of the first item that raises
ListParser_return(parsed) ==
    IF AllOk(parsed) THEN Ok(Vals(parsed)) ELSE FirstError(parsed)

(***************************************************************************)
(* decoder.py: the primitive parsers                                       *)
(***************************************************************************)
\* re.compile(r'-?\d+')
IntParser_PATTERN == rInt

IntParser_parse(t) ==
    IF ~ReFullMatch(IntParser_PATTERN, Strip(t), FALSE).ok
    THEN Raise("ValueError", "Invalid int value", "int")
    ELSE Ok(PyInt(IntVal(Strip(t))))

\* re.compile(r'[-+]?(?:\d*\.\d+|\d+)(?:[eE][-+]?\d+)?')
FloatParser_PATTERN ==
    Opt({"-", "+"})
    \o Alt(Star(cD) \o Lit(<<".">>) \o Plus(cD), Plus(cD))
    \o Grp(One({"e", "E"}) \o Opt({"-", "+"}) \o Plus(cD), 0, 1)

FloatParser_parse(t) ==
    IF ~ReFullMatch(FloatParser_PATTERN, Strip(t), FALSE).ok
    THEN Raise("ValueError", "Invalid float value", "float")
    ELSE Ok(FloatVal(Strip(t)))

\* re.compile(r'\w+')
StrParser_PATTERN == Plus(cW)

StrParser_parse(t) ==
    IF ~ReFullMatch(StrParser_PATTERN, Strip(t), FALSE).ok
    THEN Raise("ValueError", "Invalid string value", "str")
    ELSE Ok(PyStr(Strip(t)))

\* re.compile(r'[0-9a-fA-F]{8}')
HexParser_PATTERN == Rep(cHex, 8, 8, FALSE)

\* a parser that uses PATTERN.search instead of PATTERN.fullmatch
HexParser_parse_search(t) ==
    IF ~ReSearch(HexParser_PATTERN, Strip(t), FALSE).ok
    THEN Raise("ValueError", "Invalid hex value", "hex")
    ELSE Ok(PyStr(Lower(Strip(t))))

HexParser_parse(t) ==
    IF ~ReFullMatch(HexParser_PATTERN, Strip(t), FALSE).ok
    THEN Raise("ValueError", "Invalid hex value", "hex")
    ELSE Ok(PyStr(Lower(Strip(t))))

(***************************************************************************)
(* decoder.py: the record parsers                                          *)
(***************************************************************************)
\* r'shape_header\s*\(\s*([0-9a-fA-F]{8})\s+([0-9a-fA-F]{8})\s*\)', re.IGNORECASE
ShapeHeaderParser_PATTERN ==
    Lit(W.shape_header) \o ws0 \o LP \o ws0 \o Cap(1, Rep(cHex, 8, 8, FALSE))
    \o ws1 \o Cap(2, Rep(cHex, 8, 8, FALSE)) \o ws0 \o RP

ShapeHeaderParser_parse(t) ==
    Let(ReSearch(ShapeHeaderParser_PATTERN, t, TRUE), LAMBDA match :
        IF ~match.ok THEN Raise("ValueError", "Invalid format", "shape_header")
        ELSE Build(<<HexParser_parse(Group(t, match, 1)),
                     HexParser_parse(Group(t, match, 2))>>,
                   LAMBDA v : [type |-> "ShapeHeader", flags1 |-> v[1], flags2 |-> v[2]]))

\* keyword\s*\(\s*([-+eE\d\.]+)(\s+([-+eE\d\.]+)){n-1}\s*\): the pattern of
\* vector, point, uv_point and colour, each field a group
floats_pattern(keyword, n) ==
    Lit(keyword) \o ws0 \o LP \o ws0 \o Cap(1, rNum)
    \o (IF n >= 2 THEN ws1 \o Cap(2, rNum) ELSE <<>>)
    \o (IF n >= 3 THEN ws1 \o Cap(3, rNum) ELSE <<>>)
    \o (IF n >= 4 THEN ws1 \o Cap(4, rNum) ELSE <<>>)
    \o ws0 \o RP

\* shape.Vector(x, y, z), shape.Point(x, y, z), shape.UVPoint(u, v) and
\* shape.Colour(a, r, g, b) of the parsed floats v
floats_record(nm, v) ==
    CASE nm = "vector" -> [type |-> "Vector", x |-> v[1], y |-> v[2], z |-> v[3]]
      [] nm = "point" -> [type |-> "Point", x |-> v[1], y |-> v[2], z |-> v[3]]
      [] nm = "uv_point" -> [type |-> "UVPoint", u |-> v[1], v |-> v[2]]
      [] nm = "colour" -> [type |-> "Colour", a |-> v[1], r |-> v[2], g |-> v[3],
                           b |-> v[4]]

\* the parse method of _VectorParser, _PointParser, _UVPointParser and
\* _ColourParser: n float fields after pattern.match(text.strip())
floats_parse(pattern, nm, n, t0) ==
    Let(Strip(t0), LAMBDA t :
    Let(ReMatch(pattern, t, FALSE), LAMBDA match :
        IF ~match.ok THEN Raise("ValueError", "Invalid format", nm)
        ELSE Build([g \in 1..n |-> FloatParser_parse(Group(t, match, g))],
                   LAMBDA v : floats_record(nm, v))))

\* r'vector\s*\(\s*([-+eE\d\.]+)\s+([-+eE\d\.]+)\s+([-+eE\d\.]+)\s*\)'
VectorParser_PATTERN == floats_pattern(W.vector, 3)

VectorParser_parse(t) ==
    floats_parse(VectorParser_PATTERN, "vector", 3, t)

\* r"vol_sphere\s*\(\s*(vector\s*\([^()]*\))\s+(-?\d+(?:\.\d+)?)\s*\)", re.IGNORECASE
VolumeSphereParser_PATTERN ==
    Lit(W.vol_sphere) \o ws0 \o LP \o ws0
    \o Cap(1, Lit(W.vector) \o ws0 \o LP \o Star(cNotParen) \o RP)
    \o ws1 \o Cap(2, rDec) \o ws0 \o RP

VolumeSphereParser_parse(t) ==
    Let(ReSearch(VolumeSphereParser_PATTERN, t, TRUE), LAMBDA match :
        IF ~match.ok THEN Raise("ValueError", "Invalid format", "vol_sphere")
        ELSE Build(<<FloatParser_parse(Group(t, match, 2)),
                     VectorParser_parse(Group(t, match, 1))>>,
                   LAMBDA v : [type |-> "VolumeSphere", vector |-> v[2], radius |-> v[1]]))

\* keyword\s*\(\s*(.+?)\s*\): the pattern of named_shader, named_filter_mode
\* and image, with re.IGNORECASE
name_pattern(keyword) ==
    Lit(keyword) \o ws0 \o LP \o ws0 \o Cap(1, PlusLazy(cDot)) \o ws0 \o RP

\* the parse method of _NamedShaderParser, _NamedFilterModeParser and _ImageParser
name_parse(pattern, nm, t) ==
    Let(ReSearch(pattern, t, TRUE), LAMBDA match :
        IF ~match.ok THEN Raise("ValueError", "Invalid format", nm)
        ELSE IF Strip(Group(t, match, 1)) = <<>>
        THEN Raise("ValueError", "cannot be empty", nm)
        ELSE Ok(PyStr(Strip(Group(t, match, 1)))))

\* r'named_shader\s*\(\s*(.+?)\s*\)', re.IGNORECASE
NamedShaderParser_PATTERN == name_pattern(W.named_shader)

NamedShaderParser_parse(t) == name_parse(NamedShaderParser_PATTERN, "named_shader", t)

\* r'named_filter_mode\s*\(\s*(.+?)\s*\)', re.IGNORECASE
NamedFilterModeParser_PATTERN == name_pattern(W.named_filter_mode)

NamedFilterModeParser_parse(t) ==
    name_parse(NamedFilterModeParser_PATTERN, "named_filter_mode", t)

\* r'point\s*\(\s*([-+eE\d\.]+)\s+([-+eE\d\.]+)\s+([-+eE\d\.]+)\s*\)'
PointParser_PATTERN == floats_pattern(W.point, 3)

PointParser_parse(t) ==
    floats_parse(PointParser_PATTERN, "point", 3, t)

\* r'uv_point\s*\(\s*([-+eE\d\.]+)\s+([-+eE\d\.]+)\s*\)'
UVPointParser_PATTERN == floats_pattern(W.uv_point, 2)

UVPointParser_parse(t) ==
    floats_parse(UVPointParser_PATTERN, "uv_point", 2, t)

\* r'colour\s*\(\s*([-+eE\d\.]+)\s+([-+eE\d\.]+)\s+([-+eE\d\.]+)\s+([-+eE\d\.]+)\s*\)'
ColourParser_PATTERN == floats_pattern(W.colour, 4)

ColourParser_parse(t) ==
    floats_parse(ColourParser_PATTERN, "colour", 4, t)

RECURSIVE SplitFrom(_, _)
\* str.split(): the runs of non-space characters of t from position i
SplitFrom(t, i) ==
    Let(LStripLen(t, i), LAMBDA b :
        IF b > Len(t) THEN <<>>
        ELSE Let(Run(t, b, cNotS, FALSE, INF), LAMBDA n :
                 <<SubSeq(t, b, b + n - 1)>> \o SplitFrom(t, b + n)))

\* r'matrix\s+(\S+)\s*\(\s*([-+eE\d\.]+(?:\s+[-+eE\d\.]+){11})\s*\)'
MatrixParser_PATTERN ==
    Lit(W.matrix) \o ws1 \o Cap(1, Plus(cNotS)) \o ws0 \o LP \o ws0
    \o Cap(2, rNum \o Grp(ws1 \o rNum, 11, 11)) \o ws0 \o RP

MatrixParser_parse(t0) ==
    Let(Strip(t0), LAMBDA t :
    Let(ReMatch(MatrixParser_PATTERN, t, FALSE), LAMBDA match :
        IF ~match.ok THEN Raise("ValueError", "Invalid format", "matrix")
        ELSE
    Let(StrParser_parse(Group(t, match, 1)), LAMBDA name :
        IF ~name.ok THEN name
        ELSE
    Let(SplitFrom(Group(t, match, 2), 1), LAMBDA parts :
    Let([k \in DOMAIN parts |-> FloatParser_parse(parts[k])], LAMBDA values :
        IF ~AllOk(values) THEN FirstError(values)
        ELSE IF Len(values) # 12 THEN Raise("ValueError", "Expected 12 values", "matrix")
        ELSE Ok([type |-> "Matrix", name |-> name.val, values |-> Vals(values)]))))))

\* r'image\s*\(\s*(.+?)\s*\)', re.IGNORECASE
ImageParser_PATTERN == name_pattern(W.image)

ImageParser_parse(t) == name_parse(ImageParser_PATTERN, "image", t)

\* r'texture\s*\(\s*(-?\d+)\s+(-?\d+)\s+(-?\d+(?:\.\d+)?)\s+([a-fA-F0-9]+)\s*\)', re.IGNORECASE
TextureParser_PATTERN ==
    Lit(W.texture) \o ws0 \o LP \o ws0 \o Cap(1, rInt) \o ws1 \o Cap(2, rInt)
    \o ws1 \o Cap(3, rDec) \o ws1 \o Cap(4, rHexs) \o ws0 \o RP

TextureParser_parse(t) ==
    Let(ReSearch(TextureParser_PATTERN, t, TRUE), LAMBDA match :
        IF ~match.ok THEN Raise("ValueError", "Invalid format", "texture")
        ELSE Build(<<IntParser_parse(Group(t, match, 1)),
                     IntParser_parse(Group(t, match, 2)),
                     FloatParser_parse(Group(t, match, 3)),
                     HexParser_parse(Group(t, match, 4))>>,
                   LAMBDA v : [type |-> "Texture", image_index |-> v[1],
                               filter_mode |-> v[2], mipmap_lod_bias |-> v[3],
                               border_colour |-> v[4]]))

\* r'light_material\s*\(\s*([a-fA-F0-9]+)\s+(-?\d+)\s+(-?\d+)\s+(-?\d+)\s+(-?\d+)
\*   \s+(-?\d+(?:\.\d+)?)\s*\)', re.IGNORECASE
LightMaterialParser_PATTERN ==
    Lit(W.light_material) \o ws0 \o LP \o ws0 \o Cap(1, rHexs)
    \o ws1 \o Cap(2, rInt) \o ws1 \o Cap(3, rInt) \o ws1 \o Cap(4, rInt)
    \o ws1 \o Cap(5, rInt) \o ws1 \o Cap(6, rDec) \o ws0 \o RP

LightMaterialParser_parse(t) ==
    Let(ReSearch(LightMaterialParser_PATTERN, t, TRUE), LAMBDA match :
        IF ~match.ok THEN Raise("ValueError", "Invalid format", "light_material")
        ELSE Build(<<HexParser_parse(Group(t, match, 1)),
                     IntParser_parse(Group(t, match, 2)),
                     IntParser_parse(Group(t, match, 3)),
                     IntParser_parse(Group(t, match, 4)),
                     IntParser_parse(Group(t, match, 5)),
                     FloatParser_parse(Group(t, match, 6))>>,
                   LAMBDA v : [type |-> "LightMaterial", flags |-> v[1],
                               diff_colour_index |-> v[2], amb_colour_index |-> v[3],
                               spec_colour_index |-> v[4],
                               emissive_colour_index |-> v[5], spec_power |-> v[6]]))

\* r'uv_op_([a-z]+)\s*\(\s*(-?\d+)(?:\s+(-?\d+))?(?:\s+(-?\d+))?(?:\s+(-?\d+))?\s*\)',
\* re.IGNORECASE
UVOpParser_PATTERN ==
    Lit(W.uv_op_) \o Cap(1, Plus(LOWER)) \o ws0 \o LP \o ws0 \o Cap(2, rInt)
    \o Grp(ws1 \o Cap(3, rInt), 0, 1) \o Grp(ws1 \o Cap(4, rInt), 0, 1)
    \o Grp(ws1 \o Cap(5, rInt), 0, 1) \o ws0 \o RP

\* shape.UVOpCopy(*int_values) and the other variants' constructors
UVOp(variant, int_values) == [type |-> variant, args |-> int_values]

\* a parser that builds the variant whatever the number of values
UVOpParser_build_any(op_type, int_values, n) ==
    IF op_type = W.copy THEN Ok(UVOp("UVOpCopy", int_values))
    ELSE IF op_type = W.reflectmapfull THEN Ok(UVOp("UVOpReflectMapFull", int_values))
    ELSE IF op_type = W.reflectmap THEN Ok(UVOp("UVOpReflectMap", int_values))
    ELSE IF op_type = W.uniformscale THEN Ok(UVOp("UVOpUniformScale", int_values))
    ELSE IF op_type = W.nonuniformscale THEN Ok(UVOp("UVOpNonUniformScale", int_values))
    ELSE Raise("ValueError", "Unknown uv_op type", "uv_op")

\* the end of _UVOpParser.parse: the variant that suffix op_type names,
\* built from the n values int_values
UVOpParser_build(op_type, int_values, n) ==
    IF op_type = W.copy
    THEN IF n # 2 THEN Raise("ValueError", "expects 2 values", "uv_op_copy")
         ELSE Ok(UVOp("UVOpCopy", int_values))
    ELSE IF op_type = W.reflectmapfull
    THEN IF n # 1 THEN Raise("ValueError", "expects 1 value", "uv_op_reflectmapfull")
         ELSE Ok(UVOp("UVOpReflectMapFull", int_values))
    ELSE IF op_type = W.reflectmap
    THEN IF n # 1 THEN Raise("ValueError", "expects 1 value", "uv_op_reflectmap")
         ELSE Ok(UVOp("UVOpReflectMap", int_values))
    ELSE IF op_type = W.uniformscale
    THEN IF n # 4 THEN Raise("ValueError", "expects 4 values", "uv_op_uniformscale")
         ELSE Ok(UVOp("UVOpUniformScale", int_values))
    ELSE IF op_type = W.nonuniformscale
    THEN IF n # 4 THEN Raise("ValueError", "expects 4 values", "uv_op_nonuniformscale")
         ELSE Ok(UVOp("UVOpNonUniformScale", int_values))
    ELSE Raise("ValueError", "Unknown uv_op type", "uv_op")

UVOpParser_parse(t0) ==
    Let(Strip(t0), LAMBDA t :
    Let(ReFullMatch(UVOpParser_PATTERN, t, TRUE), LAMBDA match :
        IF ~match.ok THEN Raise("ValueError", "Invalid format", "uv_op")
        ELSE
    Let(SelectSeq(<<2, 3, 4, 5>>, LAMBDA g : HasGroup(match, g)), LAMBDA groups :
    Let([k \in DOMAIN groups |-> IntParser_parse(Group(t, match, groups[k]))],
        LAMBDA int_values :
        IF ~AllOk(int_values) THEN FirstError(int_values)
        ELSE UVOpParser_build(Lower(Group(t, match, 1)), Vals(int_values),
                              Len(int_values))))))

\* _LightModelCfgParser._uv_op_list_parser.parse
uv_op_list_parse(t) ==
    Let(ListParser_matches(W.uv_ops, "uv_ops", UVOpParser_PATTERN, TRUE, t), LAMBDA ms :
        IF ~ms.ok THEN ms
        ELSE ListParser_return([k \in DOMAIN ms.val |-> UVOpParser_parse(ms.val[k])]))

\* light_model_cfg\s*\(\s*([a-fA-F0-9]+)\s*
\* uv_ops\s*\(\s*\d+\s*
\* (?:uv_op_[a-z_]+\s*\(\s*-?\d+\s+-?\d+\s*\)\s*)+
\* \)\s*
\* \)                      re.IGNORECASE | re.VERBOSE | re.DOTALL
LightModelCfgParser_PATTERN ==
    Lit(W.light_model_cfg) \o ws0 \o LP \o ws0 \o Cap(1, rHexs) \o ws0
    \o Lit(W.uv_ops) \o ws0 \o LP \o ws0 \o Plus(cD) \o ws0
    \o Grp(Lit(W.uv_op_) \o Plus(LOWER \cup {"_"}) \o ws0 \o LP \o ws0
           \o rInt \o ws1 \o rInt \o ws0 \o RP \o ws0, 1, INF)
    \o RP \o ws0
    \o RP

LightModelCfgParser_parse(t) ==
    Let(ReSearch(LightModelCfgParser_PATTERN, t, TRUE), LAMBDA match :
        IF ~match.ok THEN Raise("ValueError", "Invalid format", "light_model_cfg")
        ELSE Build(<<HexParser_parse(Group(t, match, 1)),
                     Let(find_block(t, W.uv_ops, "uv_ops"), LAMBDA block_text :
                         IF ~block_text.ok THEN block_text
                         ELSE uv_op_list_parse(block_text.val))>>,
                   LAMBDA v : [type |-> "LightModelCfg", flags |-> v[1], uv_ops |-> v[2]]))

\* r"vtx_state\s*\(\s*([a-fA-F0-9]+)\s+(-?\d+)\s+(-?\d+)\s+(-?\d+)\s+([a-fA-F0-9]+)
\*   (?:\s+(-?\d+))?\s*\)", re.IGNORECASE
VtxStateParser_PATTERN ==
    Lit(W.vtx_state) \o ws0 \o LP \o ws0 \o Cap(1, rHexs)
    \o ws1 \o Cap(2, rInt) \o ws1 \o Cap(3, rInt) \o ws1 \o Cap(4, rInt)
    \o ws1 \o Cap(5, rHexs) \o Grp(ws1 \o Cap(6, rInt), 0, 1) \o ws0 \o RP

VtxStateParser_parse(t) ==
    Let(ReSearch(VtxStateParser_PATTERN, t, TRUE), LAMBDA match :
        IF ~match.ok THEN Raise("ValueError", "Invalid format", "vtx_state")
        ELSE Build(<<HexParser_parse(Group(t, match, 1)),
                     IntParser_parse(Group(t, match, 2)),
                     IntParser_parse(Group(t, match, 3)),
                     IntParser_parse(Group(t, match, 4)),
                     HexParser_parse(Group(t, match, 5)),
                     IF HasGroup(match, 6) THEN IntParser_parse(Group(t, match, 6))
                     ELSE Ok(None)>>,
                   LAMBDA v : [type |-> "VtxState", flags |-> v[1],
                               matrix_index |-> v[2], light_material_index |-> v[3],
                               light_model_cfg_index |-> v[4], light_flags |-> v[5],
                               matrix2_index |-> v[6]]))

\* _PrimStateParser._texture_list_parser.parse
tex_idxs_list_parse(t) ==
    Let(ListParser_matches(W.tex_idxs, "tex_idxs", IntParser_PATTERN, FALSE, t), LAMBDA ms :
        IF ~ms.ok THEN ms
        ELSE ListParser_return([k \in DOMAIN ms.val |-> IntParser_parse(ms.val[k])]))

\* prim_state\s+(\w+)\s*\(\s*([a-fA-F0-9]+)\s+(\d+)\s+
\* tex_idxs\s*\(.*?\)\s+(-?\d+)\s+(-?\d+)\s+(-?\d+)\s+(-?\d+)\s+(-?\d+)\s*
\* \)                      re.IGNORECASE | re.VERBOSE
PrimStateParser_PATTERN ==
    Lit(W.prim_state) \o ws1 \o Cap(1, Plus(cW)) \o ws0 \o LP \o ws0
    \o Cap(2, rHexs) \o ws1 \o Cap(3, Plus(cD)) \o ws1
    \o Lit(W.tex_idxs) \o ws0 \o LP \o StarLazy(cDot) \o RP
    \o ws1 \o Cap(4, rInt) \o ws1 \o Cap(5, rInt) \o ws1 \o Cap(6, rInt)
    \o ws1 \o Cap(7, rInt) \o ws1 \o Cap(8, rInt) \o ws0
    \o RP

PrimStateParser_parse(t) ==
    Let(ReSearch(PrimStateParser_PATTERN, t, TRUE), LAMBDA match :
        IF ~match.ok THEN Raise("ValueError", "Invalid format", "prim_state")
        ELSE Build(<<StrParser_parse(Group(t, match, 1)),
                     HexParser_parse(Group(t, match, 2)),
                     IntParser_parse(Group(t, match, 3)),
                     Let(find_block(t, W.tex_idxs, "tex_idxs"), LAMBDA block_text :
                         IF ~block_text.ok THEN block_text
                         ELSE tex_idxs_list_parse(block_text.val)),
                     FloatParser_parse(Group(t, match, 4)),
                     IntParser_parse(Group(t, match, 5)),
                     IntParser_parse(Group(t, match, 6)),
                     IntParser_parse(Group(t, match, 7)),
                     IntParser_parse(Group(t, match, 8))>>,
                   LAMBDA v : [type |-> "PrimState", name |-> v[1], flags |-> v[2],
                               shader_index |-> v[3], texture_indices |-> v[4],
                               z_bias |-> v[5], vtx_state_index |-> v[6],
                               alpha_test_mode |-> v[7], light_cfg_index |-> v[8],
                               z_buffer_mode |-> v[9]]))

(***************************************************************************)
(* encoder.py: indentation, and the texts an f-string is put together from *)
(***************************************************************************)
SP == <<" ">>

NL == <<"\n">>

\* " ( " after a keyword and " )" at the end of a record
OPEN == <<" ", "(", " ">>

CLOSE == <<" ", ")">>

\* an f-string: its parts are evaluated from left to right, the first
\* exception among them is raised, else their texts are concatenated
Fmt(parts) ==
    IF AllOk(parts) THEN Ok(Flat(Vals(parts), 1, Len(parts))) ELSE FirstError(parts)

\* raise TypeError(f"Parameter '{param}' must be of type ...")
TypeError(param) == Raise("TypeError", "must be of type", param)

\* _Serializer.__init__: self.indent_unit
indent_unit(indent, use_tabs) == Repeat(IF use_tabs THEN <<"\t">> ELSE SP, indent)

\* _Serializer.get_indent, of a serializer with indent unit iu
get_indent(iu, depth) == Repeat(iu, depth)

\* a variant of the for loop that closes a line at the last item only
item_lines_unwrapped(texts, per) == IF texts = <<>> THEN <<>> ELSE <<Join(SP, texts)>>

\* the for loop of _serialize_items_in_block: the lines the item texts are
\* put on, per of them to a line joined by spaces; a line is closed when it
\* holds per items, and at the last item
item_lines(texts, per) ==
    IF texts = <<>> THEN <<>>
    ELSE IF per >= 1 /\ per <= Len(texts)
    THEN [j \in 1..((Len(texts) + per - 1) \div per) |->
             Join(SP, SubSeq(texts, (j - 1) * per + 1,
                             IF j * per < Len(texts) THEN j * per ELSE Len(texts)))]
    ELSE <<Join(SP, texts)>>

\* lines, as the for loop leaves it: the header, which the first line of
\* items joins unless after_header, then the other lines after prefix
block_lines(header, ilines, prefix, after_header) ==
    IF ~after_header /\ ilines # <<>>
    THEN <<header \o SP \o ilines[1]>>
         \o [j \in 1..(Len(ilines) - 1) |-> prefix \o ilines[j + 1]]
    ELSE <<header>> \o [j \in DOMAIN ilines |-> prefix \o ilines[j]]

\* a variant that gives the closing parenthesis a line of its own when
\* the policy says so, an empty list included
close_lines_forced(lines, indent, before_closing) == Append(lines, indent \o <<")">>)

\* lines with the closing parenthesis: on a line of its own, or after the
\* last line
close_lines(lines, indent, before_closing) ==
    IF before_closing THEN Append(lines, indent \o <<")">>)
    ELSE [lines EXCEPT ![Len(lines)] = @ \o CLOSE]

\* _Serializer._serialize_items_in_block; items_per_line is an int or None,
\* and serialized holds the results of
\*     item_serializer.serialize(item, depth + 1) for item in items
serialize_items_in_block(iu, items, serialized, block_name, depth, items_per_line, count_multiplier, newline_after_header, newline_before_closing) ==
    Let(serialized, LAMBDA serialized_items :
        IF ~AllOk(serialized_items) THEN FirstError(serialized_items)
        ELSE Ok(Join(NL, close_lines(
                block_lines(get_indent(iu, depth) \o block_name \o OPEN
                                \o IntStr(Len(items) * count_multiplier),
                            item_lines([k \in DOMAIN items |-> Strip(serialized_items[k].val)],
                                       IF items_per_line = None \/ items_per_line.v = 0
                                       THEN Len(items) ELSE items_per_line.v),
                            IF items_per_line = None
                               /\ ~(newline_before_closing /\ items # <<>>)
                            THEN <<>> ELSE get_indent(iu, depth + 1),
                            newline_after_header /\ items # <<>>),
                get_indent(iu, depth),
                newline_before_closing /\ items # <<>>))))

(***************************************************************************)
(* encoder.py: the primitive serializers                                   *)
(***************************************************************************)
\* isinstance(value, int): an int or a bool, bool being a subclass of int
IsInt(value) == value.type \in {"int", "bool"}

\* str(value) of an int or a bool
IntText(value) ==
    IF value.type = "bool"
    THEN IF value.v THEN <<"T", "r", "u", "e">> ELSE <<"F", "a", "l", "s", "e">>
    ELSE IntStr(value.v)

IntSerializer_serialize(value) ==
    IF ~IsInt(value) THEN TypeError("value") ELSE Ok(IntText(value))

\* f"{value:.6g}", which formats an int as the float of the same value
FloatSerializer_serialize(value) ==
    IF value.type # "float" /\ ~IsInt(value) THEN TypeError("value")
    ELSE Ok(FloatStr(Round6(IF value.type = "int" THEN PyFloat(value.v, 0)
                            ELSE IF value.type = "bool"
                            THEN PyFloat(IF value.v THEN 1 ELSE 0, 0)
                            ELSE value)))

StrSerializer_serialize(value) ==
    IF value.type # "str" THEN TypeError("value") ELSE Ok(value.s)

HexSerializer_serialize(value) ==
    IF value.type # "str" THEN TypeError("value") ELSE Ok(Lower(value.s))

(***************************************************************************)
(* encoder.py: the record serializers.  iu is the serializer's indent unit *)
(***************************************************************************)
ShapeHeaderSerializer_serialize(iu, shape_header, depth) ==
    IF shape_header.type # "ShapeHeader" THEN TypeError("shape_header")
    ELSE Fmt(<<Ok(get_indent(iu, depth) \o W.shape_header \o OPEN),
               HexSerializer_serialize(shape_header.flags1), Ok(SP),
               HexSerializer_serialize(shape_header.flags2), Ok(CLOSE)>>)

\* f"{indent}keyword ( {f1} {f2} ... )" with every field a float
floats_text(iu, depth, keyword, values) ==
    Fmt(<<Ok(get_indent(iu, depth) \o keyword \o <<" ", "(">>)>>
        \o Flat([k \in DOMAIN values |-> <<Ok(SP), FloatSerializer_serialize(values[k])>>],
                1, Len(values))
        \o <<Ok(CLOSE)>>)

VectorSerializer_serialize(iu, vector, depth) ==
    IF vector.type # "Vector" THEN TypeError("vector")
    ELSE floats_text(iu, depth, W.vector, <<vector.x, vector.y, vector.z>>)

VolumeSphereSerializer_serialize(iu, volume_sphere, depth) ==
    IF volume_sphere.type # "VolumeSphere" THEN TypeError("volume_sphere")
    ELSE
    Build(<<VectorSerializer_serialize(iu, volume_sphere.vector, depth + 1),
            FloatSerializer_serialize(volume_sphere.radius)>>,
          LAMBDA v : get_indent(iu, depth) \o W.vol_sphere \o <<" ", "(", "\n">>
                     \o get_indent(iu, depth + 1) \o Strip(v[1]) \o SP \o v[2] \o NL
                     \o get_indent(iu, depth) \o <<")">>)

\* f"{indent}keyword ( {self._str_serializer.serialize(value)} )"
name_text(iu, depth, keyword, value) ==
    Fmt(<<Ok(get_indent(iu, depth) \o keyword \o OPEN),
          StrSerializer_serialize(value), Ok(CLOSE)>>)

NamedShaderSerializer_serialize(iu, value, depth) ==
    name_text(iu, depth, W.named_shader, value)

NamedFilterModeSerializer_serialize(iu, value, depth) ==
    name_text(iu, depth, W.named_filter_mode, value)

PointSerializer_serialize(iu, point, depth) ==
    IF point.type # "Point" THEN TypeError("point")
    ELSE floats_text(iu, depth, W.point, <<point.x, point.y, point.z>>)

UVPointSerializer_serialize(iu, uv_point, depth) ==
    IF uv_point.type # "UVPoint" THEN TypeError("uv_point")
    ELSE floats_text(iu, depth, W.uv_point, <<uv_point.u, uv_point.v>>)

ColourSerializer_serialize(iu, colour, depth) ==
    IF colour.type # "Colour" THEN TypeError("colour")
    ELSE floats_text(iu, depth, W.colour, <<colour.a, colour.r, colour.g, colour.b>>)

\* f"{indent}matrix {matrix.name} ( {values_str} )": the name is written as
\* it is, of whatever type
MatrixSerializer_serialize(iu, matrix, depth) ==
    IF matrix.type # "Matrix" THEN TypeError("matrix")
    ELSE floats_text(iu, depth, W.matrix \o SP \o matrix.name.s, matrix.values)

ImageSerializer_serialize(iu, value, depth) == name_text(iu, depth, W.image, value)

TextureSerializer_serialize(iu, texture, depth) ==
    IF texture.type # "Texture" THEN TypeError("texture")
    ELSE Fmt(<<Ok(get_indent(iu, depth) \o W.texture \o OPEN),
               IntSerializer_serialize(texture.image_index), Ok(SP),
               IntSerializer_serialize(texture.filter_mode), Ok(SP),
               FloatSerializer_serialize(texture.mipmap_lod_bias), Ok(SP),
               HexSerializer_serialize(texture.border_colour), Ok(CLOSE)>>)

LightMaterialSerializer_serialize(iu, light_material, depth) ==
    IF light_material.type # "LightMaterial" THEN TypeError("light_material")
    ELSE Fmt(<<Ok(get_indent(iu, depth) \o W.light_material \o OPEN),
               HexSerializer_serialize(light_material.flags), Ok(SP),
               IntSerializer_serialize(light_material.diff_colour_index), Ok(SP),
               IntSerializer_serialize(light_material.amb_colour_index), Ok(SP),
               IntSerializer_serialize(light_material.spec_colour_index), Ok(SP),
               IntSerializer_serialize(light_material.emissive_colour_index), Ok(SP),
               FloatSerializer_serialize(light_material.spec_power), Ok(CLOSE)>>)

\* the isinstance chain of _UVOpSerializer.serialize: the keyword suffix of
\* the variant, every variant writing all its arguments in order
UVOpSerializer_serialize(iu, uv_op, depth) ==
    IF uv_op.type \notin {"UVOpCopy", "UVOpReflectMapFull", "UVOpReflectMap",
                          "UVOpUniformScale", "UVOpNonUniformScale"}
    THEN TypeError("uv_op")
    ELSE Fmt(<<Ok(get_indent(iu, depth) \o W.uv_op_
                  \o (CASE uv_op.type = "UVOpCopy" -> W.copy
                        [] uv_op.type = "UVOpReflectMapFull" -> W.reflectmapfull
                        [] uv_op.type = "UVOpReflectMap" -> W.reflectmap
                        [] uv_op.type = "UVOpUniformScale" -> W.uniformscale
                        [] uv_op.type = "UVOpNonUniformScale" -> W.nonuniformscale)
                  \o <<" ", "(">>)>>
             \o Flat([k \in DOMAIN uv_op.args |->
                         <<Ok(SP), IntSerializer_serialize(uv_op.args[k])>>],
                     1, Len(uv_op.args))
             \o <<Ok(CLOSE)>>)

LightModelCfgSerializer_serialize(iu, light_model_cfg, depth) ==
    IF light_model_cfg.type # "LightModelCfg" THEN TypeError("light_model_cfg")
    ELSE
    Build(<<HexSerializer_serialize(light_model_cfg.flags),
            serialize_items_in_block(iu, light_model_cfg.uv_ops,
                [k \in DOMAIN light_model_cfg.uv_ops |->
                    UVOpSerializer_serialize(iu, light_model_cfg.uv_ops[k], depth + 2)],
                W.uv_ops, depth + 1, PyInt(1), 1, TRUE, TRUE)>>,
          LAMBDA v : get_indent(iu, depth) \o W.light_model_cfg \o OPEN \o v[1] \o NL
                     \o v[2] \o NL
                     \o get_indent(iu, depth) \o <<")">>)

\* a serializer that tests `if vtx_state.matrix2_index:` instead of
\* `is not None`
VtxStateSerializer_serialize_truthy(iu, vtx_state, depth) ==
    IF vtx_state.type # "VtxState" THEN TypeError("vtx_state")
    ELSE Fmt(<<Ok(get_indent(iu, depth) \o W.vtx_state \o OPEN),
               HexSerializer_serialize(vtx_state.flags), Ok(SP),
               IntSerializer_serialize(vtx_state.matrix_index), Ok(SP),
               IntSerializer_serialize(vtx_state.light_material_index), Ok(SP),
               IntSerializer_serialize(vtx_state.light_model_cfg_index), Ok(SP),
               HexSerializer_serialize(vtx_state.light_flags)>>
             \o (IF vtx_state.matrix2_index \notin {None, PyInt(0)}
                 THEN <<Ok(SP), IntSerializer_serialize(vtx_state.matrix2_index)>>
                 ELSE <<>>)
             \o <<Ok(CLOSE)>>)

VtxStateSerializer_serialize(iu, vtx_state, depth) ==
    IF vtx_state.type # "VtxState" THEN TypeError("vtx_state")
    ELSE Fmt(<<Ok(get_indent(iu, depth) \o W.vtx_state \o OPEN),
               HexSerializer_serialize(vtx_state.flags), Ok(SP),
               IntSerializer_serialize(vtx_state.matrix_index), Ok(SP),
               IntSerializer_serialize(vtx_state.light_material_index), Ok(SP),
               IntSerializer_serialize(vtx_state.light_model_cfg_index), Ok(SP),
               HexSerializer_serialize(vtx_state.light_flags)>>
             \o (IF vtx_state.matrix2_index # None
                 THEN <<Ok(SP), IntSerializer_serialize(vtx_state.matrix2_index)>>
                 ELSE <<>>)
             \o <<Ok(CLOSE)>>)

PrimStateSerializer_serialize(iu, prim_state, depth) ==
    IF prim_state.type # "PrimState" THEN TypeError("prim_state")
    ELSE
    Let(serialize_items_in_block(iu, prim_state.texture_indices,
            [k \in DOMAIN prim_state.texture_indices |->
                IntSerializer_serialize(prim_state.texture_indices[k])],
            W.tex_idxs, depth + 1, None, 1, FALSE, FALSE), LAMBDA tex_idxs_block :
        IF ~tex_idxs_block.ok THEN tex_idxs_block
        ELSE Fmt(<<Ok(get_indent(iu, depth) \o W.prim_state \o SP
                      \o prim_state.name.s \o OPEN),
                   HexSerializer_serialize(prim_state.flags), Ok(SP),
                   IntSerializer_serialize(prim_state.shader_index), Ok(NL),
                   tex_idxs_block, Ok(SP),
                   FloatSerializer_serialize(prim_state.z_bias), Ok(SP),
                   IntSerializer_serialize(prim_state.vtx_state_index), Ok(SP),
                   IntSerializer_serialize(prim_state.alpha_test_mode), Ok(SP),
                   IntSerializer_serialize(prim_state.light_cfg_index), Ok(SP),
                   IntSerializer_serialize(prim_state.z_buffer_mode), Ok(NL),
                   Ok(get_indent(iu, depth) \o <<")">>)>>))

\* f"{indent}keyword (\n{block}\n...{indent})": a record of the LOD tree,
\* one block per line
LodSerialize(iu, keyword, depth, blocks) ==
    IF ~AllOk(blocks) THEN FirstError(blocks)
    ELSE Ok(get_indent(iu, depth) \o keyword \o <<" ", "(", "\n">>
            \o Flat([k \in DOMAIN blocks |-> blocks[k].val \o NL], 1, Len(blocks))
            \o get_indent(iu, depth) \o <<")">>)

DistanceLevelSelectionSerializer_serialize(iu, value, depth) ==
    IF ~IsInt(value) THEN TypeError("value")
    ELSE Fmt(<<Ok(get_indent(iu, depth) \o W.dlevel_selection \o OPEN),
               IntSerializer_serialize(value), Ok(CLOSE)>>)

DistanceLevelHeaderSerializer_serialize(iu, header, depth) ==
    IF header.type # "DistanceLevelHeader" THEN TypeError("header")
    ELSE LodSerialize(iu, W.distance_level_header, depth,
            <<DistanceLevelSelectionSerializer_serialize(iu, header.dlevel_selection, depth + 1),
              serialize_items_in_block(iu, header.hierarchy,
                  [k \in DOMAIN header.hierarchy |->
                      IntSerializer_serialize(header.hierarchy[k])],
                  W.hierarchy, depth + 1, None, 1, FALSE, FALSE)>>)

\* subobject_block is the empty text
DistanceLevelSerializer_serialize(iu, dlevel, depth) ==
    IF dlevel.type # "DistanceLevel" THEN TypeError("dlevel")
    ELSE LodSerialize(iu, W.distance_level, depth,
            <<DistanceLevelHeaderSerializer_serialize(iu, dlevel.distance_level_header, depth + 1),
              Ok(<<>>)>>)

DistanceLevelsHeaderSerializer_serialize(iu, header, depth) ==
    IF header.type # "DistanceLevelsHeader" THEN TypeError("header")
    ELSE Fmt(<<Ok(get_indent(iu, depth) \o W.distance_levels_header \o OPEN),
               IntSerializer_serialize(header.dlevel_bias), Ok(CLOSE)>>)

LodControlSerializer_serialize(iu, lod_control, depth) ==
    IF lod_control.type # "LodControl" THEN TypeError("lod_control")
    ELSE LodSerialize(iu, W.lod_control, depth,
            <<DistanceLevelsHeaderSerializer_serialize(iu, lod_control.distance_levels_header,
                                                       depth + 1),
              serialize_items_in_block(iu, lod_control.distance_levels,
                  [k \in DOMAIN lod_control.distance_levels |->
                      DistanceLevelSerializer_serialize(iu, lod_control.distance_levels[k],
                                                        depth + 2)],
                  W.distance_levels, depth + 1, PyInt(1), 1, TRUE, TRUE)>>)

(***************************************************************************)
(* encoder.py: the shape serializer and the encoder                        *)
(***************************************************************************)
\* the blocks of a shape, in the order of the grammar
BlockNames == <<"shape_header", "volumes", "shader_names", "texture_filter_names",
                "points", "uv_points", "normals", "sort_vectors", "colours",
                "matrices", "images", "textures", "light_materials",
                "light_model_cfgs", "vtx_states", "prim_states">>

\* the item serializer _ShapeSerializer.__init__ gives the table block_name,
\* and the one of tex_idxs in _PrimStateSerializer
item_serializer(iu, block_name, x, d) ==
    CASE block_name = "volumes" -> VolumeSphereSerializer_serialize(iu, x, d)
      [] block_name = "shader_names" -> NamedShaderSerializer_serialize(iu, x, d)
      [] block_name = "texture_filter_names" -> NamedFilterModeSerializer_serialize(iu, x, d)
      [] block_name = "points" -> PointSerializer_serialize(iu, x, d)
      [] block_name = "uv_points" -> UVPointSerializer_serialize(iu, x, d)
      [] block_name = "normals" -> VectorSerializer_serialize(iu, x, d)
      [] block_name = "sort_vectors" -> VectorSerializer_serialize(iu, x, d)
      [] block_name = "colours" -> ColourSerializer_serialize(iu, x, d)
      [] block_name = "matrices" -> MatrixSerializer_serialize(iu, x, d)
      [] block_name = "images" -> ImageSerializer_serialize(iu, x, d)
      [] block_name = "textures" -> TextureSerializer_serialize(iu, x, d)
      [] block_name = "light_materials" -> LightMaterialSerializer_serialize(iu, x, d)
      [] block_name = "light_model_cfgs" -> LightModelCfgSerializer_serialize(iu, x, d)
      [] block_name = "vtx_states" -> VtxStateSerializer_serialize(iu, x, d)
      [] block_name = "prim_states" -> PrimStateSerializer_serialize(iu, x, d)
      [] block_name = "lod_controls" -> LodControlSerializer_serialize(iu, x, d)
      [] block_name = "tex_idxs" -> IntSerializer_serialize(x)

\* the value of a name that no assignment of the function binds
UnboundLocal(name) == Raise("NameError", "is not defined", name)

\* the tables of a shape that are lists, in the order of the grammar
ListNames == Tail(BlockNames) \o <<"lod_controls">>

\* _ShapeSerializer.serialize: the seventeen blocks are serialized, then the
\* returned f-string is evaluated part by part; its last part but one reads
\* animations_block, a name the function never assigns
ShapeSerializer_serialize(iu, s, depth) ==
    IF s.type # "Shape" THEN TypeError("s")
    ELSE
    Let(<<ShapeHeaderSerializer_serialize(iu, s.shape_header, depth + 1)>>
        \o [k \in DOMAIN ListNames |->
              serialize_items_in_block(iu, s[ListNames[k]],
                  [j \in DOMAIN s[ListNames[k]] |->
                      item_serializer(iu, ListNames[k], s[ListNames[k]][j], depth + 2)],
                  W[ListNames[k]], depth + 1, PyInt(1), 1, TRUE, TRUE)], LAMBDA blocks :
    Let(UnboundLocal("animations_block"), LAMBDA animations_block :
        IF ~AllOk(blocks) THEN FirstError(blocks)
        ELSE Fmt(<<Ok(get_indent(iu, depth) \o W.shape \o <<" ", "(", "\n">>)>>
                 \o [k \in DOMAIN blocks |-> Ok(blocks[k].val \o NL)]
                 \o <<IF ~animations_block.ok THEN animations_block
                      ELSE IF animations_block.val # <<>>
                      THEN Ok(animations_block.val \o NL) ELSE Ok(<<>>),
                      Ok(get_indent(iu, depth) \o <<")">>)>>)))

\* "\ufeffSIMISA@@@@@@@@@@JINX0s1t______\n\n"
SIGNATURE ==
    <<"BOM", "S", "I", "M", "I", "S", "A", "@", "@", "@", "@", "@", "@", "@", "@",
      "@", "@", "J", "I", "N", "X", "0", "s", "1", "t", "_", "_", "_", "_", "_",
      "_", "\n", "\n">>

\* ShapeEncoder.encode, of an encoder made with indent and use_tabs
ShapeEncoder_encode(indent, use_tabs, shape) ==
    Let(ShapeSerializer_serialize(indent_unit(indent, use_tabs), shape, 0), LAMBDA txt :
        IF ~txt.ok THEN txt ELSE Ok(SIGNATURE \o txt.val \o NL))

\* shapeio.dumps
dumps(shape, indent, use_tabs) == ShapeEncoder_encode(indent, use_tabs, shape)

(***************************************************************************)
(* decoder.py: the shape parser                                            *)
(***************************************************************************)
\* the item pattern, its re.IGNORECASE, and the item parser _ShapeParser.__init__
\* gives the list parser of the table block_name
item_pattern(block_name) ==
    CASE block_name = "volumes" -> VolumeSphereParser_PATTERN
      [] block_name = "shader_names" -> NamedShaderParser_PATTERN
      [] block_name = "texture_filter_names" -> NamedFilterModeParser_PATTERN
      [] block_name = "points" -> PointParser_PATTERN
      [] block_name = "uv_points" -> UVPointParser_PATTERN
      [] block_name = "normals" -> VectorParser_PATTERN
      [] block_name = "sort_vectors" -> VectorParser_PATTERN
      [] block_name = "colours" -> ColourParser_PATTERN
      [] block_name = "matrices" -> MatrixParser_PATTERN
      [] block_name = "images" -> ImageParser_PATTERN
      [] block_name = "textures" -> TextureParser_PATTERN
      [] block_name = "light_materials" -> LightMaterialParser_PATTERN
      [] block_name = "light_model_cfgs" -> LightModelCfgParser_PATTERN
      [] block_name = "vtx_states" -> VtxStateParser_PATTERN
      [] block_name = "prim_states" -> PrimStateParser_PATTERN

item_ignorecase(block_name) ==
    block_name \notin {"points", "uv_points", "normals", "sort_vectors", "colours",
                       "matrices"}

item_parse(block_name, t) ==
    CASE block_name = "volumes" -> VolumeSphereParser_parse(t)
      [] block_name = "shader_names" -> NamedShaderParser_parse(t)
      [] block_name = "texture_filter_names" -> NamedFilterModeParser_parse(t)
      [] block_name = "points" -> PointParser_parse(t)
      [] block_name = "uv_points" -> UVPointParser_parse(t)
      [] block_name = "normals" -> VectorParser_parse(t)
      [] block_name = "sort_vectors" -> VectorParser_parse(t)
      [] block_name = "colours" -> ColourParser_parse(t)
      [] block_name = "matrices" -> MatrixParser_parse(t)
      [] block_name = "images" -> ImageParser_parse(t)
      [] block_name = "textures" -> TextureParser_parse(t)
      [] block_name = "light_materials" -> LightMaterialParser_parse(t)
      [] block_name = "light_model_cfgs" -> LightModelCfgParser_parse(t)
      [] block_name = "vtx_states" -> VtxStateParser_parse(t)
      [] block_name = "prim_states" -> PrimStateParser_parse(t)

\* the parser _ShapeParser.__init__ gives the block block_name, run on the
\* text of the block
block_parser(block_name, t) ==
    IF block_name = "shape_header" THEN ShapeHeaderParser_parse(t)
    ELSE
    Let(ListParser_matches(W[block_name], block_name, item_pattern(block_name),
                           item_ignorecase(block_name), t), LAMBDA ms :
        IF ~ms.ok THEN ms
        ELSE ListParser_return([k \in DOMAIN ms.val |-> item_parse(block_name, ms.val[k])]))

\* one statement of _ShapeParser.parse,
\* self._parse_block(text, block_name, self._<block_name>_parser), and with it
\* _Parser._parse_block
parse_statement(t, block_name) ==
    Let(find_block(t, W[block_name], block_name), LAMBDA block_text :
        IF ~block_text.ok THEN block_text
        ELSE block_parser(block_name, block_text.val))

\* shape.Shape(shape_header=..., ..., lod_controls=[], animations=animations or [])
Shape(ts) ==
    [type |-> "Shape", shape_header |-> ts[1], volumes |-> ts[2], shader_names |-> ts[3],
     texture_filter_names |-> ts[4], points |-> ts[5], uv_points |-> ts[6],
     normals |-> ts[7], sort_vectors |-> ts[8], colours |-> ts[9], matrices |-> ts[10],
     images |-> ts[11], textures |-> ts[12], light_materials |-> ts[13],
     light_model_cfgs |-> ts[14], vtx_states |-> ts[15], prim_states |-> ts[16],
     lod_controls |-> <<>>, animations |-> <<>>]

\* _ShapeParser.parse run to its end: the Shape, or the error of the first
\* statement that raises
ShapeParser_parse(t) ==
    Build([k \in DOMAIN BlockNames |-> parse_statement(t, BlockNames[k])], Shape)

\* shapeio.loads
loads(shape_string) == ShapeParser_parse(shape_string)

(***************************************************************************)
(* Documents to decode.  A document is the signature line and              *)
(* `shape ( ... )` around the sixteen blocks, every table holding DocItems *)
(* items.  One block of it may be damaged and one may be left out:         *)
(*   "bad"  a table declares one item more than it holds, shape_header     *)
(*          has a field of 7 digits;                                       *)
(*   "open" the closing parenthesis of the block is not there;             *)
(*   "cut"  the document ends after the items of the block.                *)
(***************************************************************************)
DocItems == 1

\* one item of each table, as written in a shape file
ITEM == [
    volumes |-> <<"v", "o", "l", "_", "s", "p", "h", "e", "r", "e", " ", "(",
        " ", "v", "e", "c", "t", "o", "r", " ", "(", " ", "1", " ", "2", " ",
        "3", " ", ")", " ", "4", ".", "5", " ", ")">>,
    shader_names |-> <<"n", "a", "m", "e", "d", "_", "s", "h", "a", "d", "e",
        "r", " ", "(", " ", "T", "e", "x", "D", "i", "f", "f", " ", ")">>,
    texture_filter_names |-> <<"n", "a", "m", "e", "d", "_", "f", "i", "l",
        "t", "e", "r", "_", "m", "o", "d", "e", " ", "(", " ", "M", "i", "p",
        "L", "i", "n", "e", "a", "r", " ", ")">>,
    points |-> <<"p", "o", "i", "n", "t", " ", "(", " ", "1", " ", "2", " ",
        "3", " ", ")">>,
    uv_points |-> <<"u", "v", "_", "p", "o", "i", "n", "t", " ", "(", " ",
        "0", ".", "5", " ", "1", " ", ")">>,
    normals |-> <<"v", "e", "c", "t", "o", "r", " ", "(", " ", "0", " ", "1",
        " ", "0", " ", ")">>,
    sort_vectors |-> <<"v", "e", "c", "t", "o", "r", " ", "(", " ", "0", " ",
        "0", " ", "1", " ", ")">>,
    colours |-> <<"c", "o", "l", "o", "u", "r", " ", "(", " ", "1", " ", "0",
        ".", "5", " ", "0", " ", "1", " ", ")">>,
    matrices |-> <<"m", "a", "t", "r", "i", "x", " ", "M", "A", "I", "N", " ",
        "(", " ", "1", " ", "0", " ", "0", " ", "0", " ", "1", " ", "0", " ",
        "0", " ", "0", " ", "1", " ", "0", " ", "0", " ", "0", " ", ")">>,
    images |-> <<"i", "m", "a", "g", "e", " ", "(", " ", "a", ".", "a", "c",
        "e", " ", ")">>,
    textures |-> <<"t", "e", "x", "t", "u", "r", "e", " ", "(", " ", "0", " ",
        "1", " ", "-", "3", " ", "f", "f", "0", "0", "0", "0", "0", "0", " ",
        ")">>,
    light_materials |-> <<"l", "i", "g", "h", "t", "_", "m", "a", "t", "e",
        "r", "i", "a", "l", " ", "(", " ", "0", "0", "0", "0", "0", "0", "0",
        "0", " ", "0", " ", "1", " ", "2", " ", "3", " ", "4", " ", ")">>,
    light_model_cfgs |-> <<"l", "i", "g", "h", "t", "_", "m", "o", "d", "e",
        "l", "_", "c", "f", "g", " ", "(", " ", "0", "0", "0", "0", "0", "0",
        "0", "0", " ", "u", "v", "_", "o", "p", "s", " ", "(", " ", "1", " ",
        "u", "v", "_", "o", "p", "_", "c", "o", "p", "y", " ", "(", " ", "1",
        " ", "2", " ", ")", " ", ")", " ", ")">>,
    vtx_states |-> <<"v", "t", "x", "_", "s", "t", "a", "t", "e", " ", "(",
        " ", "0", "0", "0", "0", "0", "0", "0", "0", " ", "0", " ", "-", "5",
        " ", "0", " ", "0", "0", "0", "0", "0", "0", "0", "2", " ", ")">>,
    prim_states |-> <<"p", "r", "i", "m", "_", "s", "t", "a", "t", "e", " ",
        "p", "s", " ", "(", " ", "0", "0", "0", "0", "0", "0", "0", "0", " ",
        "0", " ", "t", "e", "x", "_", "i", "d", "x", "s", " ", "(", " ", "1",
        " ", "0", " ", ")", " ", "0", " ", "0", " ", "0", " ", "0", " ", "1",
        " ", ")">>
]

FLAGS == <<<<"0", "0", "0", "0", "0", "0", "0", "0">>,
          <<"a", "b", "c", "d", "e", "f", "1", "2">>,
          <<"0", "A", "B", "C", "D", "E", "F", "1">>,
          <<"1", "0", "0", "0", "0", "0", "0", "a">>>>

Faults == {"bad", "open", "cut"}

\* the parameters of the documents: the two fields of shape_header, the
\* damaged block and its damage, the block left out and the table that
\* holds no item (0: none)
DocParams ==
    {[f1 |-> f[1], f2 |-> f[2], bad |-> 0, fault |-> "none", gone |-> 0, empty |-> 0] :
        f \in (1..Len(FLAGS)) \X (1..Len(FLAGS))}
    \cup
    {[f1 |-> 1, f2 |-> 1, bad |-> b[1], fault |-> b[2], gone |-> g, empty |-> 0] :
        b \in (1..Len(BlockNames)) \X Faults, g \in 0..Len(BlockNames)}
    \cup
    {[f1 |-> 1, f2 |-> 1, bad |-> 0, fault |-> "none", gone |-> g, empty |-> m] :
        g \in 0..Len(BlockNames), m \in {0} \cup (2..Len(BlockNames))}

\* the block shape_header of a document: its first field has 7 digits when bad
DocHeader(d, fault) ==
    W.shape_header \o OPEN \o (IF fault = "bad" THEN Tail(FLAGS[d.f1]) ELSE FLAGS[d.f1])
    \o SP \o FLAGS[d.f2] \o (IF fault \in {"open", "cut"} THEN <<>> ELSE CLOSE)

\* the table name of a document, holding n items: it declares one more when bad
DocTable(name, n, fault) ==
    W[name] \o OPEN \o IntStr(IF fault = "bad" THEN n + 1 ELSE n)
    \o Flat([i \in 1..n |-> SP \o ITEM[name]], 1, n)
    \o (IF fault \in {"open", "cut"} THEN <<>> ELSE CLOSE)

\* the block BlockNames[k] of document d
DocBlock(d, k) ==
    IF k = 1 THEN DocHeader(d, IF d.bad = k THEN d.fault ELSE "none")
    ELSE DocTable(BlockNames[k], IF d.empty = k THEN 0 ELSE DocItems,
                  IF d.bad = k THEN d.fault ELSE "none")

\* the blocks document d holds
DocKept(d) ==
    SelectSeq([k \in DOMAIN BlockNames |-> k],
              LAMBDA k : k # d.gone /\ (d.fault = "cut" => k <= d.bad))

\* the text of document d
Document(d) ==
    SIGNATURE \o W.shape \o <<" ", "(", "\n">>
    \o Flat([i \in DOMAIN DocKept(d) |-> DocBlock(d, DocKept(d)[i]) \o NL],
            1, Len(DocKept(d)))
    \o (IF d.fault = "cut" THEN <<>> ELSE <<")", "\n">>)

(***************************************************************************)
(* Decoding a document: _ShapeParser.parse, one statement at a time        *)
(***************************************************************************)
\* no call has returned or raised yet
Pending == [ok |-> FALSE, val |-> <<>>, err |-> "", msg |-> "pending", name |-> ""]

Init ==
    /\ inp \in DocParams
    /\ text = Document(inp)
    /\ pc = "parse"
    /\ res = Pending
    /\ attempted = <<>>
    /\ tables = <<>>
    /\ files = NoFiles
    /\ calls = <<>>

\* a decoder that goes on after a block has failed, its table left empty
ParseStatement_lenient ==
    /\ pc = "parse"
    /\ Len(attempted) < Len(BlockNames)
    /\ attempted' = Append(attempted, BlockNames[Len(attempted) + 1])
    /\ Let(parse_statement(text, BlockNames[Len(attempted) + 1]), LAMBDA r :
           tables' = Append(tables, IF r.ok THEN r.val ELSE <<>>))
    /\ UNCHANGED <<pc, res, inp, text, files, calls>>

\* the next statement of _ShapeParser.parse: the block is located and
\* parsed; an exception leaves the function
ParseStatement ==
    /\ pc = "parse"
    /\ Len(attempted) < Len(BlockNames)
    /\ attempted' = Append(attempted, BlockNames[Len(attempted) + 1])
    /\ Let(parse_statement(text, BlockNames[Len(attempted) + 1]), LAMBDA r :
           IF r.ok
           THEN tables' = Append(tables, r.val) /\ UNCHANGED <<pc, res>>
           ELSE pc' = "raised" /\ res' = r /\ UNCHANGED tables)
    /\ UNCHANGED <<inp, text, files, calls>>

\* return shape.Shape(...)
ParseReturn ==
    /\ pc = "parse"
    /\ Len(attempted) = Len(BlockNames)
    /\ pc' = "returned"
    /\ res' = Ok(Shape(tables))
    /\ UNCHANGED <<inp, text, attempted, tables, files, calls>>

Next == ParseStatement \/ ParseReturn

Spec == Init /\ [][Next]_vars

\* decode has returned or raised
Finished == pc \in {"returned", "raised"}

\* C5: the block parsers are attempted in the order of the grammar; when a
\* block fails, decode raises the error of that block's parser as it is, no
\* later block is attempted, and a Shape is returned only after all the
\* sixteen blocks have been parsed.
C5_FailFast ==
    /\ [](/\ attempted = SubSeq(BlockNames, 1, Len(attempted))
          /\ (pc = "raised" => ~res.ok /\ Len(tables) = Len(attempted) - 1)
          /\ (res.ok => pc = "returned" /\ Len(attempted) = Len(BlockNames)
                        /\ res.val = Shape(tables)))
    /\ [][/\ pc = "parse"
          /\ Len(attempted) < Len(BlockNames) =>
               Let(parse_statement(text, BlockNames[Len(attempted) + 1]), LAMBDA r :
                   /\ attempted' = Append(attempted, BlockNames[Len(attempted) + 1])
                   /\ r.ok => pc' = "parse" /\ tables' = Append(tables, r.val)
                   /\ ~r.ok => pc' = "raised" /\ res' = r /\ tables' = tables)]_vars

\* the fifth block has failed after four blocks were parsed
C5_Witness ==
    pc = "raised" /\ Len(attempted) = 5 /\ Len(tables) = 4 /\ res.name = "points"

\* C6: decoding a document that lacks one of the sixteen blocks, and has no
\* other defect, raises the header-not-found error of that block; the
\* missing block is never given an empty table.
C6_MissingBlockRaises ==
    (Finished /\ inp.gone # 0 /\ inp.bad = 0) =>
        res = Raise("ValueError", "No valid block header found", BlockNames[inp.gone])

\* a document that lacks a block other than points raises as C6 says: the
\* name of no other block is found inside the header of another block
MissingBlockOtherThanPoints ==
    (Finished /\ inp.gone \notin {0, 5} /\ inp.bad = 0) =>
        res = Raise("ValueError", "No valid block header found", BlockNames[inp.gone])

\* a document without the block points has been decoded to a Shape
C6_Defaulted ==
    pc = "returned" /\ inp.gone = 5 /\ res.ok /\ res.val.points = <<>>

\* C9: a document whose shape_header holds the fields f1 and f2, any two
\* texts of 8 hexadecimal digits, decodes to a ShapeHeader whose flags are
\* f1 and f2 in lowercase.
C9_AnyHexHeader ==
    (Finished /\ inp.bad = 0 /\ inp.gone = 0 /\ inp.empty = 0) =>
        /\ res.ok
        /\ res.val.shape_header =
              [type |-> "ShapeHeader", flags1 |-> PyStr(Lower(FLAGS[inp.f1])),
               flags2 |-> PyStr(Lower(FLAGS[inp.f2]))]

\* a shape_header whose first field begins with a digit is decoded as C9 says
DigitFirstHeader ==
    (Finished /\ inp.bad = 0 /\ inp.gone = 0 /\ inp.empty = 0
              /\ FLAGS[inp.f1][1] \in DIGIT) =>
        /\ res.ok
        /\ res.val.shape_header =
              [type |-> "ShapeHeader", flags1 |-> PyStr(Lower(FLAGS[inp.f1])),
               flags2 |-> PyStr(Lower(FLAGS[inp.f2]))]

\* decoding a document whose first field begins with a letter has raised
C9_LetterFirst ==
    pc = "raised" /\ inp.bad = 0 /\ inp.gone = 0 /\ FLAGS[inp.f1][1] \notin DIGIT
    /\ res = Raise("ValueError", "No valid block header found", "shape_header")

(***************************************************************************)
(* Locating a block: _find_block on the text of a header followed by       *)
(* parentheses and other characters                                        *)
(***************************************************************************)
MaxTail == 5

\* what comes before the tail: two headers of the block points, and a text
\* that holds no header
BlockHeads == <<
    <<"p", "o", "i", "n", "t", "s", " ", "(", " ", "1">>,
    <<"x", " ", "P", "o", "i", "n", "t", "s", "(", "2", " ">>,
    <<"p", "o", "i", "n", "t", "s", " ", "1">>>>

BlockTails == UNION {[1..n -> {"(", ")", "x"}] : n \in 0..MaxTail}

InitBlock ==
    /\ inp \in [head : 1..Len(BlockHeads), tail : BlockTails]
    /\ text = BlockHeads[inp.head] \o inp.tail
    /\ pc = "find"
    /\ res = Pending
    /\ attempted = <<>>
    /\ tables = <<>>
    /\ files = NoFiles
    /\ calls = <<>>

\* self._find_block(text, "points")
FindBlock ==
    /\ pc = "find"
    /\ pc' = "found"
    /\ res' = find_block(text, W.points, "points")
    /\ UNCHANGED <<inp, text, attempted, tables, files, calls>>

NextBlock == FindBlock

SpecBlock == InitBlock /\ [][NextBlock]_vars

\* the opening parentheses less the closing ones among t[i], ..., t[j]
Depth(t, i, j) ==
    Cardinality({k \in i..j : t[k] = "("}) - Cardinality({k \in i..j : t[k] = ")"})

\* every closing parenthesis of t closes an earlier one, and none stays open
Balanced(t) ==
    /\ \A j \in DOMAIN t : Depth(t, 1, j) >= 0
    /\ Depth(t, 1, Len(t)) = 0

\* the scan from the parenthesis of the header at position open gets to the
\* end of t with the depth never back to zero
Exhausted(t, open) == \A j \in open..Len(t) : Depth(t, open, j) > 0

\* C7: when the scan of _find_block reaches the end of the text before the
\* depth is back to zero, _find_block raises the unbalanced-parentheses
\* error; a span it returns starts at the header and has balanced
\* parentheses.
C7_Unbalanced ==
    (pc = "found" /\ inp.head \in {1, 2}) =>
        /\ Exhausted(text, Find(BlockHeads[inp.head], "(", 1)) =>
               res = Raise("ValueError", "Unbalanced parentheses", "points")
        /\ res.ok => /\ Balanced(res.val)
                     /\ ~Exhausted(text, Find(BlockHeads[inp.head], "(", 1))
                     /\ Lower(SubSeq(res.val, 1, 6)) = W.points

\* the scan has run out of a text that opens a second parenthesis and
\* closes one
C7_Witness ==
    /\ pc = "found" /\ inp.head = 1 /\ inp.tail = <<"(", "x", ")">>
    /\ res = Raise("ValueError", "Unbalanced parentheses", "points")

(***************************************************************************)
(* Parsing a uv_op: _UVOpParser.parse on `uv_op_<suffix> ( args )`         *)
(***************************************************************************)
MaxArgs == 5

\* the suffixes tried: the five variants, two of them again in other
\* letter cases, and two that name no variant
UVSuffixes == <<W.copy, W.reflectmapfull, W.reflectmap, W.uniformscale,
                W.nonuniformscale, <<"C", "O", "P", "Y">>,
                <<"R", "e", "f", "l", "e", "c", "t", "M", "a", "p">>,
                <<"s", "c", "a", "l", "e">>, <<"c", "o", "p", "y", "x">>>>

\* the arguments written are the first n of these, taken round again
\* when they run out
UVArgs == <<3, 0 - 14, 0, 7, 25>>

UVArgsWritten(n) == [k \in 1..n |-> UVArgs[((k - 1) % Len(UVArgs)) + 1]]

\* the variant a suffix names and the number of arguments it takes; the
\* keywords of the grammar are read in any letter case
UVVariants == <<[type |-> "UVOpCopy", arity |-> 2],
                [type |-> "UVOpReflectMapFull", arity |-> 1],
                [type |-> "UVOpReflectMap", arity |-> 1],
                [type |-> "UVOpUniformScale", arity |-> 4],
                [type |-> "UVOpNonUniformScale", arity |-> 4],
                [type |-> "UVOpCopy", arity |-> 2],
                [type |-> "UVOpReflectMap", arity |-> 1],
                [type |-> "none", arity |-> 0 - 1],
                [type |-> "none", arity |-> 0 - 1]>>

\* `uv_op_<suffix> ( args )`, written with single spaces or without the
\* spaces that may be left out
UVOpText(suffix, args, tight) ==
    W.uv_op_ \o suffix \o (IF tight THEN <<"(">> ELSE OPEN)
    \o Join(SP, [k \in DOMAIN args |-> IntStr(args[k])])
    \o (IF tight THEN <<")">> ELSE CLOSE)

InitUVOp ==
    /\ inp \in [suffix : 1..Len(UVSuffixes), n : 0..MaxArgs, tight : BOOLEAN]
    /\ text = UVOpText(UVSuffixes[inp.suffix], UVArgsWritten(inp.n), inp.tight)
    /\ pc = "parse"
    /\ res = Pending
    /\ attempted = <<>>
    /\ tables = <<>>
    /\ files = NoFiles
    /\ calls = <<>>

\* _UVOpParser().parse(text)
ParseUVOp ==
    /\ pc = "parse"
    /\ pc' = "parsed"
    /\ res' = UVOpParser_parse(text)
    /\ UNCHANGED <<inp, text, attempted, tables, files, calls>>

NextUVOp == ParseUVOp

SpecUVOp == InitUVOp /\ [][NextUVOp]_vars

\* C10: _UVOpParser accepts `uv_op_<suffix> ( args )` exactly when the
\* suffix names one of the five variants and the number of arguments is the
\* arity of that variant (2, 1, 1, 4, 4); it then builds that variant from
\* the arguments in order.  Any other suffix and any other number of
\* arguments raises an error.
C10_Arity ==
    pc = "parsed" =>
        /\ res.ok <=> inp.n = UVVariants[inp.suffix].arity
        /\ res.ok => res.val = [type |-> UVVariants[inp.suffix].type,
                                args |-> [k \in 1..inp.n |-> PyInt(UVArgsWritten(inp.n)[k])]]
        /\ ~res.ok => res.err = "ValueError"

\* uv_op_uniformscale has been built from its four arguments
C10_Witness ==
    /\ pc = "parsed" /\ inp.suffix = 4 /\ inp.n = 4
    /\ res.ok /\ res.val.type = "UVOpUniformScale" /\ res.val.args[2] = PyInt(0 - 14)

(***************************************************************************)
(* _ListParser and _serialize_items_in_block on single list blocks: the    *)
(* lists points, tex_idxs and volumes, written by hand with a declared     *)
(* count and a number of items, or serialized under a layout policy        *)
(***************************************************************************)
\* the longest list
MaxItems == 3

Vector(x, y, z) == [type |-> "Vector", x |-> x, y |-> y, z |-> z]

Point(x, y, z) == [type |-> "Point", x |-> x, y |-> y, z |-> z]

VolumeSphere(vector, radius) ==
    [type |-> "VolumeSphere", vector |-> vector, radius |-> radius]

\* three items of each list, 1e6 and 2.5e-6 among the floats
ListValues == [
    points |-> <<Point(PyFloat(1, 0), PyFloat(2, 0), PyFloat(3, 0)),
                 Point(PyFloat(0 - 5, 0 - 1), PyFloat(0, 0), PyFloat(1, 6)),
                 Point(PyFloat(25, 0 - 7), PyFloat(4, 0), PyFloat(5, 0 - 1))>>,
    tex_idxs |-> <<PyInt(5), PyInt(0 - 1), PyInt(12)>>,
    volumes |-> <<VolumeSphere(Vector(PyFloat(1, 0), PyFloat(2, 0), PyFloat(3, 0)),
                               PyFloat(45, 0 - 1)),
                  VolumeSphere(Vector(PyFloat(0, 0), PyFloat(0, 0), PyFloat(0, 0)),
                               PyFloat(1, 6)),
                  VolumeSphere(Vector(PyFloat(0 - 1, 0), PyFloat(5, 0 - 1), PyFloat(0, 0)),
                               PyFloat(2, 0))>>
]

\* texts a file may hold the items of points and tex_idxs as
ListTexts == [
    points |-> <<
        <<"p", "o", "i", "n", "t", " ", "(", " ", "1", " ", "2", " ", "3",
        " ", ")">>,
        <<"p", "o", "i", "n", "t", "(", "-", "0", ".", "5", " ", "0", " ",
        "1", "e", "+", "0", "6", ")">>,
        <<"p", "o", "i", "n", "t", " ", "(", " ", "2", ".", "5", "e", "-",
        "0", "6", " ", "4", " ", ".", "5", " ", ")">>>>,
    tex_idxs |-> <<<<"5">>, <<"-", "1">>, <<"1", "2">>>>
]

\* the first n items of a list, the three taken round again when n is more
Items(list, n) == [k \in 1..n |-> ListValues[list][((k - 1) % 3) + 1]]

\* the separators between the items of a written list
Separators == <<SP, <<"\n", "\t">>>>

\* the list block that declares n items and holds the first m
WrittenList(list, n, m, sep, closed) ==
    W[list] \o OPEN \o NatStr(n)
    \o Join(<<>>, [k \in 1..m |-> Separators[sep] \o ListTexts[list][((k - 1) % 3) + 1]])
    \o (IF closed THEN Separators[sep] \o <<")">> ELSE <<>>)

WrittenParams ==
    [kind : {"written"}, list : {"points", "tex_idxs"}, n : 0..MaxItems,
     m : 0..MaxItems, sep : DOMAIN Separators, closed : BOOLEAN]

\* items_per_line in {1, 2, 3, None}, the two newline flags, the depth
LayoutParams ==
    [kind : {"layout"}, list : {"points", "tex_idxs", "volumes"}, n : 0..MaxItems,
     per : {PyInt(1), PyInt(2), PyInt(3), None}, after_header : BOOLEAN,
     before_closing : BOOLEAN, depth : {0, 1}]

\* the list parsers of _ShapeParser and _PrimStateParser
list_parse(list, t) ==
    IF list = "tex_idxs" THEN tex_idxs_list_parse(t) ELSE block_parser(list, t)

\* _serialize_items_in_block with the item serializer of the list,
\* count_multiplier 1, tabs for indentation
list_serialize(list, items, depth, per, after_header, before_closing) ==
    serialize_items_in_block(<<"\t">>, items,
        [k \in DOMAIN items |-> item_serializer(<<"\t">>, list, items[k], depth + 1)],
        W[list], depth, per, 1, after_header, before_closing)

InitList ==
    /\ inp \in WrittenParams \cup LayoutParams
    /\ pc = IF inp.kind = "written" THEN "text" ELSE "items"
    /\ text = IF inp.kind = "written"
              THEN WrittenList(inp.list, inp.n, inp.m, inp.sep, inp.closed)
              ELSE <<>>
    /\ res = Pending
    /\ attempted = <<>>
    /\ tables = <<>>
    /\ files = NoFiles
    /\ calls = <<>>

\* the first n items of the list are serialized to a block
SerializeList ==
    /\ pc = "items"
    /\ Let(list_serialize(inp.list, Items(inp.list, inp.n), inp.depth,
                          inp.per, inp.after_header, inp.before_closing), LAMBDA r :
           /\ pc' = IF r.ok THEN "text" ELSE "raised"
           /\ text' = IF r.ok THEN r.val ELSE text
           /\ res' = IF r.ok THEN res ELSE r)
    /\ UNCHANGED <<inp, attempted, tables, files, calls>>

\* the list parser runs on the block
ParseList ==
    /\ pc = "text"
    /\ pc' = "parsed"
    /\ res' = list_parse(inp.list, text)
    /\ UNCHANGED <<inp, text, attempted, tables, files, calls>>

NextList == SerializeList \/ ParseList

SpecList == InitList /\ [][NextList]_vars

\* C1: _ListParser.parse returns a list only when the number of items
\* matched in the body equals the declared count N, and the list holds
\* exactly those N items in the order of the text; on a closed list block
\* that holds m items it succeeds exactly when m = N, and a mismatch (too
\* few or too many items) raises the ValueError of the count check.
C1_CountChecked ==
    (pc = "parsed" /\ inp.kind = "written") =>
        /\ res.ok => res.val = Items(inp.list, inp.n)
        /\ inp.closed => (res.ok <=> inp.m = inp.n)
        /\ (inp.closed /\ inp.m # inp.n) =>
               res = Raise("ValueError", "Expected count items", inp.list)

\* three points declared and written, returned in the order of the text
C1_Witness ==
    /\ pc = "parsed" /\ inp.kind = "written" /\ inp.list = "points" /\ inp.closed
    /\ inp.n = 3 /\ inp.m = 3
    /\ res.ok /\ Len(res.val) = 3 /\ res.val[2].z = PyFloat(1, 6)

\* C4: whatever the layout policy (items_per_line in {1, 2, 3, None}, the
\* two newline flags) and the items, the block _serialize_items_in_block
\* writes with count_multiplier 1 is accepted by the list parser of the
\* same item kind and decodes to the same items in the same order.
C4_LayoutAccepted ==
    /\ pc # "raised"
    /\ (pc = "parsed" /\ inp.kind = "layout") =>
           res.ok /\ res.val = Items(inp.list, inp.n)

\* the lists of points and of integers come back under every layout
LayoutOfPointsAndInts ==
    (pc = "parsed" /\ inp.kind = "layout" /\ inp.list # "volumes") =>
        res.ok /\ res.val = Items(inp.list, inp.n)

(***************************************************************************)
(* The record serializers and parsers on single records: serialize(r) is   *)
(* written, then parse reads it                                            *)
(***************************************************************************)
\* floats of at most six significant digits: 0, -1.5, 1e6, 2.5e-6, 1234.56
Floats == <<PyFloat(0, 0), PyFloat(0 - 15, 0 - 1), PyFloat(1, 6), PyFloat(25, 0 - 7),
            PyFloat(123456, 0 - 2)>>

\* signed integers
Ints == <<PyInt(0), PyInt(0 - 3), PyInt(12)>>

\* strings of eight hex digits
Hexes == <<PyStr(FLAGS[1]), PyStr(FLAGS[2]), PyStr(FLAGS[3])>>

Range(f) == {f[k] : k \in DOMAIN f}

UVPoint(u, v) == [type |-> "UVPoint", u |-> u, v |-> v]

Colour(a, r, g, b) == [type |-> "Colour", a |-> a, r |-> r, g |-> g, b |-> b]

Matrix(name, values) == [type |-> "Matrix", name |-> PyStr(name), values |-> values]

Texture(image_index, filter_mode, mipmap_lod_bias, border_colour) ==
    [type |-> "Texture", image_index |-> image_index, filter_mode |-> filter_mode,
     mipmap_lod_bias |-> mipmap_lod_bias, border_colour |-> border_colour]

LightMaterial(flags, index, spec_power) ==
    [type |-> "LightMaterial", flags |-> flags, diff_colour_index |-> index,
     amb_colour_index |-> PyInt(1), spec_colour_index |-> PyInt(2),
     emissive_colour_index |-> PyInt(3), spec_power |-> spec_power]

LightModelCfg(flags, uv_ops) ==
    [type |-> "LightModelCfg", flags |-> flags, uv_ops |-> uv_ops]

VtxState(flags, matrix_index, matrix2_index) ==
    [type |-> "VtxState", flags |-> flags, matrix_index |-> matrix_index,
     light_material_index |-> PyInt(0 - 5), light_model_cfg_index |-> PyInt(0),
     light_flags |-> PyStr(FLAGS[4]), matrix2_index |-> matrix2_index]

PrimState(flags, shader_index, texture_indices, z_bias) ==
    [type |-> "PrimState", name |-> PyStr(<<"p", "s">>), flags |-> flags,
     shader_index |-> shader_index, texture_indices |-> texture_indices,
     z_bias |-> z_bias, vtx_state_index |-> PyInt(0), alpha_test_mode |-> PyInt(0 - 1),
     light_cfg_index |-> PyInt(0), z_buffer_mode |-> PyInt(1)]

UVOpTypes == <<"UVOpCopy", "UVOpReflectMapFull", "UVOpReflectMap", "UVOpUniformScale",
               "UVOpNonUniformScale">>

\* the number of integers of each UVOp variant (shape.py)
UVOpArity == <<2, 1, 1, 4, 4>>

\* lists of uv_ops, and lists of texture indices
UVOpLists == {<<>>, <<UVOp("UVOpCopy", <<PyInt(1), PyInt(2)>>)>>,
              <<UVOp("UVOpReflectMap", <<PyInt(1)>>)>>,
              <<UVOp("UVOpCopy", <<PyInt(1), PyInt(0 - 2)>>),
                UVOp("UVOpUniformScale", <<PyInt(1), PyInt(2), PyInt(3), PyInt(4)>>)>>}

TexIdxLists == {<<>>, <<PyInt(0)>>, <<PyInt(1), PyInt(2)>>}

\* records of the sixteen types, their fields drawn from the values above
RecordSamples ==
    {Vector(a, b, Floats[5]) : a \in Range(Floats), b \in Range(Floats)}
    \cup {Point(a, Floats[2], b) : a \in Range(Floats), b \in Range(Floats)}
    \cup {UVPoint(a, b) : a \in Range(Floats), b \in Range(Floats)}
    \cup {Colour(a, Floats[1], Floats[2], b) : a \in Range(Floats), b \in Range(Floats)}
    \cup {Matrix(<<"M", "A", "I", "N">>,
                  [k \in 1..12 |-> IF k % 2 = 0 THEN a ELSE Floats[(k % 5) + 1]]) :
             a \in Range(Floats)}
    \cup {VolumeSphere(Vector(Floats[2], a, Floats[4]), b) :
             a \in Range(Floats), b \in Range(Floats)}
    \cup {Texture(i, PyInt(1), a, h) :
             i \in Range(Ints), a \in Range(Floats), h \in Range(Hexes)}
    \cup {LightMaterial(h, i, a) :
             h \in Range(Hexes), i \in Range(Ints), a \in Range(Floats)}
    \cup {UVOp(UVOpTypes[k], [j \in 1..UVOpArity[k] |-> IF j = 1 THEN i ELSE Ints[j - 1]]) :
             k \in DOMAIN UVOpTypes, i \in Range(Ints)}
    \cup {LightModelCfg(h, ops) : h \in Range(Hexes), ops \in UVOpLists}
    \cup {VtxState(h, i, j) :
             h \in Range(Hexes), i \in Range(Ints), j \in Range(Ints) \cup {None}}
    \cup {PrimState(h, i, xs, a) :
             h \in Range(Hexes), i \in Range(Ints), xs \in TexIdxLists,
             a \in Range(Floats)}

\* the serializer of the type of record r
record_serialize(iu, r, depth) ==
    CASE r.type = "Vector" -> VectorSerializer_serialize(iu, r, depth)
      [] r.type = "Point" -> PointSerializer_serialize(iu, r, depth)
      [] r.type = "UVPoint" -> UVPointSerializer_serialize(iu, r, depth)
      [] r.type = "Colour" -> ColourSerializer_serialize(iu, r, depth)
      [] r.type = "Matrix" -> MatrixSerializer_serialize(iu, r, depth)
      [] r.type = "VolumeSphere" -> VolumeSphereSerializer_serialize(iu, r, depth)
      [] r.type = "Texture" -> TextureSerializer_serialize(iu, r, depth)
      [] r.type = "LightMaterial" -> LightMaterialSerializer_serialize(iu, r, depth)
      [] r.type \in Range(UVOpTypes) -> UVOpSerializer_serialize(iu, r, depth)
      [] r.type = "LightModelCfg" -> LightModelCfgSerializer_serialize(iu, r, depth)
      [] r.type = "VtxState" -> VtxStateSerializer_serialize(iu, r, depth)
      [] r.type = "PrimState" -> PrimStateSerializer_serialize(iu, r, depth)

\* the parser of the records of type type
record_parse(type, t) ==
    CASE type = "Vector" -> VectorParser_parse(t)
      [] type = "Point" -> PointParser_parse(t)
      [] type = "UVPoint" -> UVPointParser_parse(t)
      [] type = "Colour" -> ColourParser_parse(t)
      [] type = "Matrix" -> MatrixParser_parse(t)
      [] type = "VolumeSphere" -> VolumeSphereParser_parse(t)
      [] type = "Texture" -> TextureParser_parse(t)
      [] type = "LightMaterial" -> LightMaterialParser_parse(t)
      [] type \in Range(UVOpTypes) -> UVOpParser_parse(t)
      [] type = "LightModelCfg" -> LightModelCfgParser_parse(t)
      [] type = "VtxState" -> VtxStateParser_parse(t)
      [] type = "PrimState" -> PrimStateParser_parse(t)

InitRecord ==
    /\ inp \in [r : RecordSamples, depth : {0, 1}]
    /\ pc = "record"
    /\ text = <<>>
    /\ res = Pending
    /\ attempted = <<>>
    /\ tables = <<>>
    /\ files = NoFiles
    /\ calls = <<>>

\* serialize(r), with tabs for indentation
SerializeRecord ==
    /\ pc = "record"
    /\ Let(record_serialize(<<"\t">>, inp.r, inp.depth), LAMBDA r :
           /\ pc' = IF r.ok THEN "text" ELSE "raised"
           /\ text' = IF r.ok THEN r.val ELSE text
           /\ res' = IF r.ok THEN res ELSE r)
    /\ UNCHANGED <<inp, attempted, tables, files, calls>>

\* parse(serialize(r))
ParseRecord ==
    /\ pc = "text"
    /\ pc' = "parsed"
    /\ res' = record_parse(inp.r.type, text)
    /\ UNCHANGED <<inp, text, attempted, tables, files, calls>>

NextRecord == SerializeRecord \/ ParseRecord

SpecRecord == InitRecord /\ [][NextRecord]_vars

\* C3: for every record r of the sixteen types (integers signed, hex
\* fields of eight hex digits, floats of at most six significant digits)
\* serialize(r) is written and parse(serialize(r)) is a record equal to r
\* field by field.
C3_RecordRoundTrip ==
    /\ pc # "raised"
    /\ pc = "parsed" => res.ok /\ res.val = inp.r

\* the records of floats, the matrices and the UVOps come back as they were
FloatRecordsComeBack ==
    (pc = "parsed" /\ inp.r.type \in {"Vector", "Point", "UVPoint", "Colour", "Matrix"}
                                      \cup Range(UVOpTypes)) =>
        res.ok /\ res.val = inp.r

\* with lowercase hex digits, radius, mipmap_lod_bias and spec_power written
\* without an exponent, a z_bias written as an integer, a shader_index that
\* is not negative and uv_ops that are all of two integers and at least one,
\* the other records come back as well
Plain(x) == x.e \in (0 - 5)..0

OtherRecordsComeBack ==
    (/\ pc = "parsed"
     /\ CASE inp.r.type = "VolumeSphere" -> Plain(inp.r.radius)
          [] inp.r.type = "Texture" ->
               Plain(inp.r.mipmap_lod_bias) /\ inp.r.border_colour # Hexes[3]
          [] inp.r.type = "LightMaterial" ->
               Plain(inp.r.spec_power) /\ inp.r.flags # Hexes[3]
          [] inp.r.type = "LightModelCfg" ->
               /\ inp.r.flags # Hexes[3]
               /\ inp.r.uv_ops # <<>>
               /\ \A k \in DOMAIN inp.r.uv_ops : Len(inp.r.uv_ops[k].args) = 2
          [] inp.r.type = "VtxState" -> inp.r.flags # Hexes[3]
          [] inp.r.type = "PrimState" ->
               /\ inp.r.flags # Hexes[3]
               /\ inp.r.shader_index.v >= 0
               /\ inp.r.z_bias.e = 0
          [] OTHER -> FALSE) =>
        res.ok /\ res.val = inp.r

(***************************************************************************)
(* shapeio.dumps and shapeio.loads on shapes without lod_controls and      *)
(* animations                                                              *)
(***************************************************************************)
\* the most rows a table of a shape holds
MaxRows == 2

\* a row of each table
SAMPLE == [
    volumes |-> VolumeSphere(Vector(PyFloat(1, 0), PyFloat(2, 0), PyFloat(3, 0)),
                             PyFloat(45, 0 - 1)),
    shader_names |-> PyStr(<<"T", "e", "x", "D", "i", "f", "f">>),
    texture_filter_names |-> PyStr(<<"M", "i", "p", "L", "i", "n", "e", "a", "r">>),
    points |-> Point(PyFloat(1, 0), PyFloat(2, 0), PyFloat(3, 0)),
    uv_points |-> UVPoint(PyFloat(5, 0 - 1), PyFloat(1, 0)),
    normals |-> Vector(PyFloat(0, 0), PyFloat(1, 0), PyFloat(0, 0)),
    sort_vectors |-> Vector(PyFloat(0, 0), PyFloat(0, 0), PyFloat(1, 0)),
    colours |-> Colour(PyFloat(1, 0), PyFloat(5, 0 - 1), PyFloat(0, 0), PyFloat(1, 0)),
    matrices |-> Matrix(<<"M", "A", "I", "N">>,
                        [k \in 1..12 |-> IF k \in {1, 5, 9} THEN PyFloat(1, 0)
                                         ELSE PyFloat(0, 0)]),
    images |-> PyStr(<<"a", ".", "a", "c", "e">>),
    textures |-> Texture(PyInt(0), PyInt(1), PyFloat(0 - 3, 0), PyStr(FLAGS[2])),
    light_materials |-> LightMaterial(PyStr(FLAGS[1]), PyInt(0), PyFloat(4, 0)),
    light_model_cfgs |->
        LightModelCfg(PyStr(FLAGS[1]), <<UVOp("UVOpCopy", <<PyInt(1), PyInt(2)>>)>>),
    vtx_states |-> VtxState(PyStr(FLAGS[1]), PyInt(0), None),
    prim_states |-> PrimState(PyStr(FLAGS[1]), PyInt(0), <<PyInt(0)>>, PyFloat(0, 0))
]

ShapeParams ==
    [f1 : DOMAIN FLAGS, f2 : DOMAIN FLAGS, n : 0..MaxRows, indent : {1, 2},
     use_tabs : BOOLEAN]

\* the shape with the header fields f1 and f2 and n rows in every table
ShapeOf(p) ==
    Shape(<<[type |-> "ShapeHeader", flags1 |-> PyStr(FLAGS[p.f1]),
             flags2 |-> PyStr(FLAGS[p.f2])]>>
          \o [k \in 1..(Len(BlockNames) - 1) |->
                 [j \in 1..p.n |-> SAMPLE[BlockNames[k + 1]]]])

InitShape ==
    /\ inp \in ShapeParams
    /\ pc = "shape"
    /\ text = <<>>
    /\ res = Pending
    /\ attempted = <<>>
    /\ tables = <<>>
    /\ files = NoFiles
    /\ calls = <<>>

\* dumps(s, indent, use_tabs)
Dumps ==
    /\ pc = "shape"
    /\ pc' = "dumped"
    /\ Let(dumps(ShapeOf(inp), inp.indent, inp.use_tabs), LAMBDA d :
           /\ res' = d
           /\ text' = IF d.ok THEN d.val ELSE text)
    /\ UNCHANGED <<inp, attempted, tables, files, calls>>

\* loads(dumps(s, indent, use_tabs)): loads runs when dumps has returned
RoundTrip ==
    /\ pc = "shape"
    /\ pc' = "loaded"
    /\ Let(dumps(ShapeOf(inp), inp.indent, inp.use_tabs), LAMBDA d :
           /\ res' = IF d.ok THEN loads(d.val) ELSE d
           /\ text' = IF d.ok THEN d.val ELSE text)
    /\ UNCHANGED <<inp, attempted, tables, files, calls>>

NextShape == Dumps \/ RoundTrip

SpecShape == InitShape /\ [][NextShape]_vars

\* C2: for a shape s with empty lod_controls and animations, dumps(s)
\* returns a text and loads of that text is a shape equal to s field by
\* field.
C2_ShapeRoundTrip ==
    pc = "loaded" => res.ok /\ res.val = ShapeOf(inp)

\* the lines of a text
Lines(t) ==
    Let(Positions(t, {"\n"}, 1), LAMBDA ps :
        [k \in 1..(Len(ps) + 1) |->
            SubSeq(t, IF k = 1 THEN 1 ELSE ps[k - 1] + 1,
                      IF k <= Len(ps) THEN ps[k] - 1 ELSE Len(t))])

IsPrefix(p, t) == Len(p) <= Len(t) /\ SubSeq(t, 1, Len(p)) = p

\* the keyword a line opens with after the indentation iu, <<>> when the
\* line is indented otherwise or opens with no keyword
Keyword(iu, line) ==
    IF ~IsPrefix(iu, line) THEN <<>>
    ELSE Let(Len(iu) + 1, LAMBDA i :
             SubSeq(line, i,
                    CHOOSE j \in (i - 1)..Len(line) :
                        /\ \A k \in i..j : line[k] \in LOWER \cup {"_"}
                        /\ j < Len(line) => line[j + 1] \notin LOWER \cup {"_"}))

OpensBlock(iu, line) == Keyword(iu, line) # <<>>

\* C8: encode returns a text; after the signature it opens with the line
\* "shape (", then come the seventeen blocks shape_header, volumes, ...,
\* prim_states, lod_controls in that order, each at depth 1, and the
\* closing ")" line ends it.
C8_ShapeBody ==
    pc = "dumped" =>
        /\ res.ok
        /\ IsPrefix(SIGNATURE, res.val)
        /\ Let(indent_unit(inp.indent, inp.use_tabs), LAMBDA iu :
           Let(Lines(SubSeq(res.val, Len(SIGNATURE) + 1, Len(res.val))), LAMBDA ls :
               /\ Len(ls) >= 3
               /\ ls[1] = W.shape \o <<" ", "(">>
               /\ ls[Len(ls) - 1] = <<")">>
               /\ ls[Len(ls)] = <<>>
               /\ Let(SelectSeq(SubSeq(ls, 2, Len(ls) - 2),
                                LAMBDA line : OpensBlock(iu, line)), LAMBDA blocks :
                      [k \in DOMAIN blocks |-> Keyword(iu, blocks[k])]
                          = [k \in 1..17 |-> W[(BlockNames \o <<"lod_controls">>)[k]]])))

(***************************************************************************)
(* Parsing a light_model_cfg: _LightModelCfgParser.parse on                *)
(* `light_model_cfg ( <8hex> uv_ops ( M op ... ) )` written by hand        *)
(***************************************************************************)
MaxOps == 2

\* one well-formed uv_op of each variant: its suffix and its arguments
CfgOps == <<[suffix |-> W.copy, type |-> "UVOpCopy", args |-> <<1, 2>>],
            [suffix |-> W.reflectmapfull, type |-> "UVOpReflectMapFull", args |-> <<6>>],
            [suffix |-> W.reflectmap, type |-> "UVOpReflectMap", args |-> <<0 - 4>>],
            [suffix |-> W.uniformscale, type |-> "UVOpUniformScale",
             args |-> <<1, 3, 0, 2>>],
            [suffix |-> W.nonuniformscale, type |-> "UVOpNonUniformScale",
             args |-> <<0, 0 - 1, 7, 12>>]>>

\* the lists of at most MaxOps uv_ops, each item the index of its variant
CfgOpLists == UNION {[1..m -> DOMAIN CfgOps] : m \in 0..MaxOps}

\* the ways the block is written: single spaces, no space where the grammar
\* allows none, one item per line
CfgStyles == {"spaced", "tight", "lines"}

\* `light_model_cfg ( flags uv_ops ( M op ... ) )`
CfgText(flags, ops, style) ==
    Let(IF style = "lines" THEN <<"\n", "\t">> ELSE SP, LAMBDA sep :
    Let(IF style = "tight" THEN <<"(">> ELSE OPEN, LAMBDA open :
    Let(IF style = "tight" THEN <<")">> ELSE CLOSE, LAMBDA close :
        W.light_model_cfg \o open \o flags \o sep
        \o W.uv_ops \o open \o NatStr(Len(ops))
        \o Flat([k \in DOMAIN ops |->
                    sep \o UVOpText(CfgOps[ops[k]].suffix, CfgOps[ops[k]].args,
                                    style = "tight")], 1, Len(ops))
        \o close \o close)))

\* the UVOp values the items of the list stand for
CfgOpValues(ops) ==
    [k \in DOMAIN ops |->
        UVOp(CfgOps[ops[k]].type,
             [j \in DOMAIN CfgOps[ops[k]].args |-> PyInt(CfgOps[ops[k]].args[j])])]

InitCfg ==
    /\ inp \in [flags : DOMAIN FLAGS, ops : CfgOpLists, style : CfgStyles]
    /\ text = CfgText(FLAGS[inp.flags], inp.ops, inp.style)
    /\ pc = "parse"
    /\ res = Pending
    /\ attempted = <<>>
    /\ tables = <<>>
    /\ files = NoFiles
    /\ calls = <<>>

\* _LightModelCfgParser().parse(text)
ParseCfg ==
    /\ pc = "parse"
    /\ pc' = "parsed"
    /\ res' = LightModelCfgParser_parse(text)
    /\ UNCHANGED <<inp, text, attempted, tables, files, calls>>

NextCfg == ParseCfg

SpecCfg == InitCfg /\ [][NextCfg]_vars

\* C11: decoding a light_model_cfg block whose uv_ops list holds M >= 0
\* well-formed uv_op items of any of the five variants yields a
\* LightModelCfg with the flags in lowercase and exactly those M UVOp
\* values in order.
C11_CfgDecoded ==
    pc = "parsed" =>
        /\ res.ok
        /\ res.val = LightModelCfg(PyStr(Lower(FLAGS[inp.flags])), CfgOpValues(inp.ops))

\* what _LightModelCfgParser.PATTERN admits: the block is read exactly when
\* the list holds at least one item and every item has two arguments; it
\* then holds the flags in lowercase and the items in order, and every
\* other block is refused as 'Invalid light_model_cfg format'
TwoArgumentOpsDecoded ==
    pc = "parsed" =>
        /\ res.ok <=> (inp.ops # <<>> /\ \A k \in DOMAIN inp.ops : inp.ops[k] = 1)
        /\ res.ok => res.val = LightModelCfg(PyStr(Lower(FLAGS[inp.flags])),
                                             CfgOpValues(inp.ops))
        /\ ~res.ok => res = Raise("ValueError", "Invalid format", "light_model_cfg")

(***************************************************************************)
(* The optional sixth field of a vtx_state: _VtxStateSerializer.serialize  *)
(* on VtxState values, and _VtxStateParser.parse on what it wrote and on   *)
(* blocks of five and of six fields written by hand                        *)
(***************************************************************************)
\* the values of matrix2_index: absent, 0, a negative and a positive index
Matrix2Values == {None} \cup Range(Ints)

VtxStyles == {"spaced", "tight", "wide"}

\* `vtx_state ( flags 7 -5 0 1000000a [matrix2_index] )`
VtxText(flags, matrix2_index, style) ==
    Let(IF style = "wide" THEN <<" ", "\t">> ELSE SP, LAMBDA sep :
        W.vtx_state
        \o (IF style = "tight" THEN <<"(">> ELSE IF style = "wide" THEN <<"\t", "(", "\n">>
            ELSE OPEN)
        \o flags \o sep \o IntStr(7) \o sep \o IntStr(0 - 5) \o sep \o IntStr(0)
        \o sep \o FLAGS[4]
        \o (IF matrix2_index = None THEN <<>> ELSE sep \o IntStr(matrix2_index.v))
        \o (IF style = "tight" THEN <<")">> ELSE CLOSE))

\* the fields written between the parentheses of a record
FieldsOf(t) == SplitFrom(SubSeq(t, Find(t, "(", 1) + 1, RFind(t, ")") - 1), 1)

InitVtx ==
    /\ \/ /\ inp \in [kind : {"value"}, depth : {0, 1},
                      v : {VtxState(h, i, j) : h \in Range(Hexes), i \in Range(Ints),
                                               j \in Matrix2Values}]
          /\ pc = "value"
          /\ text = <<>>
       \/ /\ inp \in [kind : {"written"}, flags : DOMAIN FLAGS,
                      matrix2_index : Matrix2Values, style : VtxStyles]
          /\ pc = "text"
          /\ text = VtxText(FLAGS[inp.flags], inp.matrix2_index, inp.style)
    /\ res = Pending
    /\ attempted = <<>>
    /\ tables = <<>>
    /\ files = NoFiles
    /\ calls = <<>>

\* _VtxStateSerializer().serialize(v, depth)
SerializeVtx ==
    /\ pc = "value"
    /\ Let(VtxStateSerializer_serialize(<<"\t">>, inp.v, inp.depth), LAMBDA r :
           /\ pc' = IF r.ok THEN "text" ELSE "raised"
           /\ text' = IF r.ok THEN r.val ELSE text
           /\ res' = IF r.ok THEN res ELSE r)
    /\ UNCHANGED <<inp, attempted, tables, files, calls>>

\* _VtxStateParser().parse(text)
ParseVtx ==
    /\ pc = "text"
    /\ pc' = "parsed"
    /\ res' = VtxStateParser_parse(text)
    /\ UNCHANGED <<inp, text, attempted, tables, files, calls>>

NextVtx == SerializeVtx \/ ParseVtx

SpecVtx == InitVtx /\ [][NextVtx]_vars

\* the matrix2_index of the value serialized, or of the block written
Matrix2Given == IF inp.kind = "value" THEN inp.v.matrix2_index ELSE inp.matrix2_index

\* C12: the serializer writes a sixth field exactly when matrix2_index is
\* not None; the parser yields matrix2_index = None exactly when the block
\* has five fields and the integer of the sixth field, 0 included, when it
\* has six; so parse(serialize(v)) keeps both the presence and the value of
\* matrix2_index.
C12_Matrix2Index ==
    /\ pc # "raised"
    /\ pc \in {"text", "parsed"} =>
           /\ Len(FieldsOf(text)) \in {5, 6}
           /\ Len(FieldsOf(text)) = 6 <=> Matrix2Given # None
    /\ pc = "parsed" =>
           /\ res.ok
           /\ res.val.matrix2_index = None <=> Len(FieldsOf(text)) = 5
           /\ Len(FieldsOf(text)) = 6 =>
                  res.val.matrix2_index = PyInt(IntVal(FieldsOf(text)[6]))
           /\ res.val.matrix2_index = Matrix2Given

\* a VtxState whose matrix2_index is 0 has been written with six fields
\* and read back with matrix2_index 0
C12_Witness ==
    /\ pc = "parsed" /\ inp.kind = "value" /\ inp.v.matrix2_index = PyInt(0)
    /\ Len(FieldsOf(text)) = 6 /\ res.ok /\ res.val.matrix2_index = PyInt(0)

(***************************************************************************)
(* Hex fields: _HexParser.parse on fragments, then _HexSerializer.serialize*)
(* on what it returned                                                     *)
(***************************************************************************)
\* texts of eight hex digits in lowercase, uppercase and mixed case
HexTexts == FLAGS \o <<<<"A", "B", "C", "D", "E", "F", "1", "2">>,
                       <<"d", "E", "a", "D", "b", "E", "e", "F">>,
                       <<"9", "8", "7", "6", "5", "4", "3", "2">>>>

\* what is done to the eight digits: nothing, the last digit dropped, a
\* digit added, the digit at position at replaced by c, c put in before
\* position at, the prefix 0x, all digits dropped
HexDefects ==
    {[kind |-> k, at |-> 1, c |-> "0"] : k \in {"none", "short", "long", "0x", "empty"}}
    \cup [kind : {"replace", "insert"}, at : {1, 5, 8}, c : {"g", "G", "-", " ", "."}]

HexDamaged(h, defect) ==
    CASE defect.kind = "none" -> h
      [] defect.kind = "short" -> SubSeq(h, 1, 7)
      [] defect.kind = "long" -> h \o <<defect.c>>
      [] defect.kind = "0x" -> <<"0", "x">> \o h
      [] defect.kind = "empty" -> <<>>
      [] defect.kind = "replace" -> [h EXCEPT ![defect.at] = defect.c]
      [] defect.kind = "insert" ->
             SubSeq(h, 1, defect.at - 1) \o <<defect.c>> \o SubSeq(h, defect.at, 8)

\* the whitespace written before and after the fragment
HexPads == <<[before |-> <<>>, after |-> <<>>], [before |-> SP, after |-> <<>>],
             [before |-> <<>>, after |-> NL], [before |-> <<"\t", " ">>, after |-> SP]>>

InitHex ==
    /\ inp \in [h : DOMAIN HexTexts, defect : HexDefects, pad : DOMAIN HexPads]
    /\ text = HexPads[inp.pad].before \o HexDamaged(HexTexts[inp.h], inp.defect)
              \o HexPads[inp.pad].after
    /\ pc = "parse"
    /\ res = Pending
    /\ attempted = <<>>
    /\ tables = <<>>
    /\ files = NoFiles
    /\ calls = <<>>

\* _HexParser().parse(text)
ParseHex ==
    /\ pc = "parse"
    /\ res' = HexParser_parse(text)
    /\ pc' = IF res'.ok THEN "parsed" ELSE "raised"
    /\ UNCHANGED <<inp, text, attempted, tables, files, calls>>

\* _HexSerializer().serialize(h) on the value the parser returned
SerializeHex ==
    /\ pc = "parsed"
    /\ pc' = "serialized"
    /\ Let(HexSerializer_serialize(res.val), LAMBDA r :
           /\ res' = r
           /\ text' = IF r.ok THEN r.val ELSE text)
    /\ UNCHANGED <<inp, attempted, tables, files, calls>>

NextHex == ParseHex \/ SerializeHex

SpecHex == InitHex /\ [][NextHex]_vars

HexDigits == {"0", "1", "2", "3", "4", "5", "6", "7", "8", "9",
              "a", "b", "c", "d", "e", "f", "A", "B", "C", "D", "E", "F"}

Whitespace == {" ", "\t", "\n", "\r", "\f"}

\* t is eight hex digits, starting at position i, with nothing but
\* whitespace around them
EightHexDigitsAt(t, i) ==
    /\ i + 7 <= Len(t)
    /\ \A k \in DOMAIN t :
           IF k \in i..(i + 7) THEN t[k] \in HexDigits ELSE t[k] \in Whitespace

\* the fragment handed to the parser
HexFragment == HexPads[inp.pad].before \o HexDamaged(HexTexts[inp.h], inp.defect)
               \o HexPads[inp.pad].after

\* C13: _HexParser accepts exactly the fragments that are eight hex digits
\* in either letter case with only whitespace around them, and returns
\* the digits in lowercase; every other fragment raises an error.
\* _HexSerializer writes lowercase, so encode(decode(h)) is h in lowercase.
C13_HexCanonical ==
    /\ pc \in {"parsed", "raised"} =>
           /\ res.ok <=> \E i \in DOMAIN text : EightHexDigitsAt(text, i)
           /\ res.ok => \E i \in DOMAIN text :
                            /\ EightHexDigitsAt(text, i)
                            /\ res.val = PyStr(Lower(SubSeq(text, i, i + 7)))
           /\ ~res.ok => res.err = "ValueError"
    /\ pc = "serialized" =>
           /\ res.ok
           /\ \E i \in DOMAIN HexFragment :
                  /\ EightHexDigitsAt(HexFragment, i)
                  /\ res.val = Lower(SubSeq(HexFragment, i, i + 7))
           /\ \A k \in DOMAIN res.val : res.val[k] \notin UPPER

\* 0ABCDEF1, written between blanks, has been read and written back as
\* 0abcdef1
C13_Witness ==
    /\ pc = "serialized" /\ inp.h = 3 /\ inp.pad = 4 /\ inp.defect.kind = "none"
    /\ res.ok /\ res.val = <<"0", "a", "b", "c", "d", "e", "f", "1">>

(***************************************************************************)
(* Letter case of keywords: _ShapeParser.parse on a document in which one  *)
(* keyword, or every keyword, is written in another letter case            *)
(***************************************************************************)
\* the keywords of a document: the names of the sixteen blocks, then the
\* names of the items and of the lists inside items
Keywords ==
    [k \in DOMAIN BlockNames |-> W[BlockNames[k]]]
    \o <<W.vol_sphere, W.vector, W.named_shader, W.named_filter_mode, W.point,
         W.uv_point, W.colour, W.matrix, W.image, W.texture, W.light_material,
         W.light_model_cfg, W.uv_ops, W.uv_op_ \o W.copy, W.vtx_state, W.prim_state,
         W.tex_idxs>>

CaseStyles == {"upper", "capital"}

\* word in another letter case: POINTS, Points
Recase(style, word) ==
    [k \in DOMAIN word |-> IF style = "upper" \/ k = 1 THEN UpperChar(word[k]) ELSE word[k]]

RECURSIVE WordStart(_, _)
\* the position where the word that holds position k of text t begins
WordStart(t, k) == IF k > 1 /\ t[k - 1] \in cW THEN WordStart(t, k - 1) ELSE k

\* the word of text t that holds position k
WordAt(t, k) == SubSeq(t, WordStart(t, k), WordStart(t, k) + Run(t, WordStart(t, k), cW, FALSE, INF) - 1)

\* text t, every word of it that is in words written in the letter case
\* of style
CaseWords(t, words, style) ==
    [k \in DOMAIN t |->
        IF t[k] \in cW /\ WordAt(t, k) \in words
        THEN Recase(style, WordAt(t, k))[k - WordStart(t, k) + 1]
        ELSE t[k]]

\* the sound document all others are written from
SoundDoc == Document([f1 |-> 3, f2 |-> 2, bad |-> 0, fault |-> "none", gone |-> 0,
                      empty |-> 0])

\* keyword 0 stands for every keyword of the document
CaseParams == [keyword : 0..Len(Keywords), style : CaseStyles]

InitCase ==
    /\ inp \in CaseParams
    /\ text = CaseWords(SoundDoc,
                        IF inp.keyword = 0 THEN Range(Keywords)
                        ELSE {Keywords[inp.keyword]}, inp.style)
    /\ pc = "decode"
    /\ res = Pending
    /\ attempted = <<>>
    /\ tables = <<>>
    /\ files = NoFiles
    /\ calls = <<>>

\* ShapeDecoder().decode(text)
DecodeCase ==
    /\ pc = "decode"
    /\ pc' = "decoded"
    /\ res' = ShapeParser_parse(text)
    /\ UNCHANGED <<inp, text, attempted, tables, files, calls>>

NextCase == DecodeCase

SpecCase == InitCase /\ [][NextCase]_vars

\* C14: keywords are matched in any letter case throughout decoding: a
\* document that differs from a decodable document only in the letter case
\* of its keywords decodes to the same Shape.
C14_KeywordCase ==
    pc = "decoded" => res.ok /\ res = ShapeParser_parse(SoundDoc)

\* the keywords the decoder does read in any letter case: shape_header and
\* the names of the items whose pattern is compiled with re.IGNORECASE
AnyCaseKeywords ==
    {W.shape_header, W.vol_sphere, W.named_shader, W.named_filter_mode, W.image,
     W.texture, W.light_material, W.light_model_cfg, W.uv_op_ \o W.copy,
     W.vtx_state, W.prim_state}

\* a document with one keyword in another letter case decodes to the same
\* Shape exactly when that keyword is one of AnyCaseKeywords; the name of a
\* list (a table, uv_ops, tex_idxs) in another letter case is refused by
\* _ListParser.parse, the name of a point, uv_point, vector, colour or
\* matrix item is not found by the item pattern
KeywordCaseRead ==
    (pc = "decoded" /\ inp.keyword # 0) =>
        /\ res.ok <=> Keywords[inp.keyword] \in AnyCaseKeywords
        /\ res.ok => res = ShapeParser_parse(SoundDoc)
        /\ ~res.ok => res.err = "ValueError"

(***************************************************************************)
(* The signature line: shapeio.loads on texts whose first line is the      *)
(* signature, another line, or not there                                   *)
(***************************************************************************)
\* the first line of the text: the signature as the encoder writes it, the
\* signature of a compressed file, the signature with another sub-tag, a
\* line of another kind of file, a line that holds a shape_header block,
\* and no line at all
FirstLines == <<
    SIGNATURE,
    <<"S", "I", "M", "I", "S", "A", "@", "F", "@", "@", "@", "@", "@", "@",
    "@", "@", "J", "I", "N", "X", "0", "s", "1", "t", "_", "_", "_", "_",
    "_", "_", "\n", "\n">>,
    <<"S", "I", "M", "I", "S", "A", "@", "@", "@", "@", "@", "@", "@", "@",
    "@", "@", "J", "I", "N", "X", "0", "w", "0", "t", "_", "_", "_", "_",
    "_", "_", "\n", "\n">>,
    <<"#", "!", "/", "b", "i", "n", "/", "s", "h", "\n">>,
    <<"s", "h", "a", "p", "e", "_", "h", "e", "a", "d", "e", "r", " ", "(",
    " ", "1", "0", "0", "0", "0", "0", "0", "a", " ", "1", "0", "0", "0",
    "0", "0", "0", "a", " ", ")", "\n">>,
    <<>> >>

\* the text after the first line: `shape ( ... )` around the sixteen
\* blocks of a sound document
DocBody(d) == SubSeq(Document(d), Len(SIGNATURE) + 1, Len(Document(d)))

SigParams == [line : DOMAIN FirstLines, f1 : {1, 3, 4}, f2 : DOMAIN FLAGS, empty : {0, 5, 16}]

SigDoc(p) == [f1 |-> p.f1, f2 |-> p.f2, bad |-> 0, fault |-> "none", gone |-> 0,
              empty |-> p.empty]

InitSig ==
    /\ inp \in SigParams
    /\ text = FirstLines[inp.line] \o DocBody(SigDoc(inp))
    /\ pc = "loads"
    /\ res = Pending
    /\ attempted = <<>>
    /\ tables = <<>>
    /\ files = NoFiles
    /\ calls = <<>>

\* shapeio.loads(text)
Loads ==
    /\ pc = "loads"
    /\ res' = loads(text)
    /\ pc' = IF res'.ok THEN "loaded" ELSE "raised"
    /\ UNCHANGED <<inp, text, attempted, tables, files, calls>>

NextSig == Loads

SpecSig == InitSig /\ [][NextSig]_vars

\* the first line of text t, without its line end
FirstLine(t) == SubSeq(t, 1, IF Find(t, "\n", 1) = 0 THEN Len(t) ELSE Find(t, "\n", 1) - 1)

\* C15: loads verifies the leading signature line before decoding: a text
\* whose first line is not the signature is rejected with an error and not
\* decoded into a Shape, and the signature line is not part of the text
\* searched for blocks.
C15_SignatureVerified ==
    /\ pc = "loaded" =>
           /\ FirstLine(text) \in {FirstLine(SIGNATURE), Tail(FirstLine(SIGNATURE))}
           /\ res = loads(DocBody(SigDoc(inp)))
    /\ pc = "raised" =>
           FirstLine(text) \notin {FirstLine(SIGNATURE), Tail(FirstLine(SIGNATURE))}

\* what loads does: the first line is not looked at as a signature, the
\* whole text is searched for the blocks; every text decodes, to the Shape
\* of its blocks when the first line holds no block, and with the
\* shape_header of the first line when that line holds one
FirstLineSearched ==
    pc # "raised"
    /\ (pc = "loaded" =>
            IF inp.line = 5
            THEN res = Ok([loads(DocBody(SigDoc(inp))).val EXCEPT
                              !.shape_header = [type |-> "ShapeHeader",
                                                flags1 |-> PyStr(FLAGS[4]),
                                                flags2 |-> PyStr(FLAGS[4])]])
            ELSE res = loads(DocBody(SigDoc(inp))))

\* a text without any signature line has been decoded into a Shape
C15_Unsigned ==
    pc = "loaded" /\ inp.line = 6 /\ res.ok /\ res.val.type = "Shape"

(***************************************************************************)
(* shapeio.py: files.  A file is a sequence of bytes; open(path, 'r',      *)
(* encoding=...) decodes it with the codec _detect_encoding names.  The    *)
(* files of the model are shorter than one buffer of the text reader, so   *)
(* that f.read(32) decodes the whole file before it returns 32 characters. *)
(***************************************************************************)
\* the characters of the code points 0..127; "CTRL" stands for each
\* character that has no name in the model (the control characters and the
\* grave accent)
ASCII == <<
    "CTRL", "CTRL", "CTRL", "CTRL", "CTRL", "CTRL", "CTRL", "CTRL",
    "CTRL", "\t", "\n", "CTRL", "\f", "\r", "CTRL", "CTRL",
    "CTRL", "CTRL", "CTRL", "CTRL", "CTRL", "CTRL", "CTRL", "CTRL",
    "CTRL", "CTRL", "CTRL", "CTRL", "CTRL", "CTRL", "CTRL", "CTRL",
    " ", "!", "\"", "#", "$", "%", "&", "'",
    "(", ")", "*", "+", ",", "-", ".", "/",
    "0", "1", "2", "3", "4", "5", "6", "7",
    "8", "9", ":", ";", "<", "=", ">", "?",
    "@", "A", "B", "C", "D", "E", "F", "G",
    "H", "I", "J", "K", "L", "M", "N", "O",
    "P", "Q", "R", "S", "T", "U", "V", "W",
    "X", "Y", "Z", "[", "\\", "]", "^", "_",
    "CTRL", "a", "b", "c", "d", "e", "f", "g",
    "h", "i", "j", "k", "l", "m", "n", "o",
    "p", "q", "r", "s", "t", "u", "v", "w",
    "x", "y", "z", "{", "|", "}", "~", "CTRL">>

\* chr(cp): "BOM" is U+FEFF, "NONASCII" every other character beyond 127
Chr(cp) == IF cp < 128 THEN ASCII[cp + 1] ELSE IF cp = 65279 THEN "BOM" ELSE "NONASCII"

\* ord(c) of the characters that have a name
Ord == [c \in {ASCII[k] : k \in DOMAIN ASCII} \ {"CTRL"} |->
           CHOOSE cp \in 0..127 : ASCII[cp + 1] = c]

\* codecs.BOM_UTF32_BE, BOM_UTF32_LE, BOM_UTF16_BE, BOM_UTF16_LE, BOM_UTF8
BOM_UTF32_BE == <<0, 0, 254, 255>>
BOM_UTF32_LE == <<255, 254, 0, 0>>
BOM_UTF16_BE == <<254, 255>>
BOM_UTF16_LE == <<255, 254>>
BOM_UTF8 == <<239, 187, 191>>

\* bytes.startswith, str.startswith
StartsWith(b, prefix) == Len(b) >= Len(prefix) /\ SubSeq(b, 1, Len(prefix)) = prefix

\* _detect_encoding, on the content of the file
detect_encoding(bytes) ==
    Let(SubSeq(bytes, 1, IF Len(bytes) < 4 THEN Len(bytes) ELSE 4), LAMBDA b :
        IF StartsWith(b, BOM_UTF32_BE) \/ StartsWith(b, BOM_UTF32_LE) THEN "utf-32"
        ELSE IF StartsWith(b, BOM_UTF16_BE) \/ StartsWith(b, BOM_UTF16_LE) THEN "utf-16"
        ELSE IF StartsWith(b, BOM_UTF8) THEN "utf-8-sig"
        ELSE IF Len(b) >= 4 /\ b[1] = 0
        THEN IF b[2] # 0 THEN "utf-16-be" ELSE "utf-32-be"
        ELSE IF Len(b) >= 4 /\ b[2] = 0
        THEN IF b[3] # 0 \/ b[4] # 0 THEN "utf-16-le" ELSE "utf-32-le"
        ELSE IF Len(b) = 2 /\ b[1] = 0 THEN "utf-16-be"
        ELSE IF Len(b) = 2 /\ b[2] = 0 THEN "utf-16-le"
        ELSE "utf-8")

\* raise UnicodeDecodeError
UnicodeDecodeError(reason) == Raise("UnicodeDecodeError", reason, "codec")

\* what a codec makes of bytes that hold no invalid sequence: the text and
\* the number of bytes of an unfinished sequence at the end
Decoded(txt, rest) == [ok |-> TRUE, val |-> txt, rest |-> rest]

\* UTF-8: a continuation byte, and the length of the sequence a byte begins
\* (0 when no sequence begins with it)
utf8_cont(b) == b \in 128..191

utf8_len(b) ==
    IF b < 128 THEN 1 ELSE IF b \in 194..223 THEN 2 ELSE IF b \in 224..239 THEN 3
    ELSE IF b \in 240..244 THEN 4 ELSE 0

\* the second byte a first byte allows
utf8_second(b0, b1) ==
    CASE b0 = 224 -> b1 \in 160..191
      [] b0 = 237 -> b1 \in 128..159
      [] b0 = 240 -> b1 \in 144..191
      [] b0 = 244 -> b1 \in 128..143
      [] OTHER -> utf8_cont(b1)

\* the bytes of b from position k to the end of the sequence that begins there
utf8_seq(b, k) == SubSeq(b, k, IF k + utf8_len(b[k]) - 1 > Len(b) THEN Len(b)
                               ELSE k + utf8_len(b[k]) - 1)

\* the code point of a whole sequence
utf8_codepoint(s) ==
    CASE Len(s) = 1 -> s[1]
      [] Len(s) = 2 -> (s[1] - 192) * 64 + (s[2] - 128)
      [] Len(s) = 3 -> (s[1] - 224) * 4096 + (s[2] - 128) * 64 + (s[3] - 128)
      [] Len(s) = 4 -> (s[1] - 240) * 262144 + (s[2] - 128) * 4096 + (s[3] - 128) * 64
                       + (s[4] - 128)

\* whether the byte at position k of b is in place: a byte that begins a
\* sequence is followed by the continuation bytes of the sequence, as far
\* as b goes; a continuation byte is within a sequence begun before it
utf8_valid_at(b, k) ==
    IF ~utf8_cont(b[k])
    THEN /\ utf8_len(b[k]) > 0
         /\ \A j \in 1..(utf8_len(b[k]) - 1) :
                k + j <= Len(b) =>
                    IF j = 1 THEN utf8_second(b[k], b[k + 1]) ELSE utf8_cont(b[k + j])
    ELSE \E j \in 1..3 :
             /\ k - j >= 1
             /\ ~utf8_cont(b[k - j])
             /\ utf8_len(b[k - j]) > j
             /\ \A i \in 1..(j - 1) : utf8_cont(b[k - i])

\* bytes.decode('utf-8') by the incremental decoder: an invalid byte raises,
\* a sequence the bytes end in the middle of is left for the next call
utf8_decode(b) ==
    IF \E k \in DOMAIN b : ~utf8_valid_at(b, k) THEN UnicodeDecodeError("invalid utf-8")
    ELSE Let(SelectSeq([k \in DOMAIN b |-> k], LAMBDA k : ~utf8_cont(b[k])), LAMBDA starts :
         Let(SelectSeq(starts, LAMBDA k : k + utf8_len(b[k]) - 1 <= Len(b)), LAMBDA whole :
             Decoded([n \in DOMAIN whole |-> Chr(utf8_codepoint(utf8_seq(b, whole[n])))],
                     IF whole # starts THEN Len(b) - starts[Len(starts)] + 1 ELSE 0)))

\* UTF-16: the code units of b, two bytes each, and whether a unit is the
\* first or the second half of a surrogate pair
utf16_units(b, little) ==
    [n \in 1..(Len(b) \div 2) |->
        IF little THEN b[2 * n - 1] + 256 * b[2 * n] ELSE 256 * b[2 * n - 1] + b[2 * n]]

utf16_high(u) == u \in 55296..56319

utf16_low(u) == u \in 56320..57343

\* bytes.decode('utf-16-le') and bytes.decode('utf-16-be') by the
\* incremental decoder
utf16_decode(b, little) ==
    Let(utf16_units(b, little), LAMBDA u :
        IF \E n \in DOMAIN u :
               \/ utf16_low(u[n]) /\ (n = 1 \/ ~utf16_high(u[n - 1]))
               \/ utf16_high(u[n]) /\ n < Len(u) /\ ~utf16_low(u[n + 1])
        THEN UnicodeDecodeError("illegal encoding")
        ELSE Let(SelectSeq([n \in DOMAIN u |-> n], LAMBDA n :
                     ~utf16_low(u[n]) /\ ~(utf16_high(u[n]) /\ n = Len(u))), LAMBDA whole :
                 Decoded([n \in DOMAIN whole |->
                             IF utf16_high(u[whole[n]])
                             THEN Chr(65536 + (u[whole[n]] - 55296) * 1024
                                      + (u[whole[n] + 1] - 56320))
                             ELSE Chr(u[whole[n]])],
                         (Len(b) % 2)
                         + (IF u # <<>> /\ utf16_high(u[Len(u)]) THEN 2 ELSE 0))))

\* bytes.decode('utf-32-le') and bytes.decode('utf-32-be')
utf32_decode(b, little) ==
    Let([n \in 1..(Len(b) \div 4) |->
            IF little
            THEN b[4 * n - 3] + 256 * b[4 * n - 2] + 65536 * b[4 * n - 1]
                 + 16777216 * b[4 * n]
            ELSE 16777216 * b[4 * n - 3] + 65536 * b[4 * n - 2] + 256 * b[4 * n - 1]
                 + b[4 * n]], LAMBDA u :
        IF \E n \in DOMAIN u : u[n] > 1114111 \/ u[n] \in 55296..57343
        THEN UnicodeDecodeError("code point not in range")
        ELSE Decoded([n \in DOMAIN u |-> Chr(u[n])], Len(b) % 4))

\* the codec of an encoding _detect_encoding names, on the bytes of a
\* file: utf-16 and utf-32 read the byte order from the byte-order mark
\* and drop it, utf-8-sig drops the mark
decode(encoding, b) ==
    CASE encoding = "utf-8" -> utf8_decode(b)
      [] encoding = "utf-8-sig" ->
             utf8_decode(IF StartsWith(b, BOM_UTF8) THEN SubSeq(b, 4, Len(b)) ELSE b)
      [] encoding = "utf-16-le" -> utf16_decode(b, TRUE)
      [] encoding = "utf-16-be" -> utf16_decode(b, FALSE)
      [] encoding = "utf-16" ->
             IF StartsWith(b, BOM_UTF16_LE) THEN utf16_decode(SubSeq(b, 3, Len(b)), TRUE)
             ELSE IF StartsWith(b, BOM_UTF16_BE)
             THEN utf16_decode(SubSeq(b, 3, Len(b)), FALSE)
             ELSE utf16_decode(b, TRUE)
      [] encoding = "utf-32-le" -> utf32_decode(b, TRUE)
      [] encoding = "utf-32-be" -> utf32_decode(b, FALSE)
      [] encoding = "utf-32" ->
             IF StartsWith(b, BOM_UTF32_LE) THEN utf32_decode(SubSeq(b, 5, Len(b)), TRUE)
             ELSE IF StartsWith(b, BOM_UTF32_BE)
             THEN utf32_decode(SubSeq(b, 5, Len(b)), FALSE)
             ELSE utf32_decode(b, TRUE)

\* the universal newlines of a file opened for reading text: \r\n and \r
\* are read as \n
translate_newlines(t) ==
    Let(SelectSeq([k \in DOMAIN t |-> k],
                  LAMBDA k : ~(t[k] = "\n" /\ k > 1 /\ t[k - 1] = "\r")), LAMBDA kept :
        [n \in DOMAIN kept |-> IF t[kept[n]] = "\r" THEN "\n" ELSE t[kept[n]]])

\* f.read(size) on a file just opened with the encoding, size None for
\* f.read(): the text decoded from the bytes, at most size characters of
\* it.  The end of the file is looked at, and bytes left over there raise,
\* only when the bytes have given fewer than size characters, a \r at
\* their end not counted (a \n may follow it).
read(encoding, b, size) ==
    Let(decode(encoding, b), LAMBDA d :
        IF ~d.ok THEN d
        ELSE Let(translate_newlines(d.val), LAMBDA t :
                 IF /\ size # None
                    /\ Len(t) - (IF t # <<>> /\ d.val[Len(d.val)] = "\r" THEN 1 ELSE 0)
                           >= size.v
                 THEN Ok(SubSeq(t, 1, size.v))
                 ELSE IF d.rest > 0 THEN UnicodeDecodeError("unexpected end of data")
                 ELSE IF size # None /\ Len(t) > size.v THEN Ok(SubSeq(t, 1, size.v))
                 ELSE Ok(t)))

\* Python's True and False
PyBool(b) == [type |-> "bool", v |-> b]

\* the text header.startswith looks for
PLAIN_HEADER == SubSeq(SIGNATURE, 2, 31)

\* open(filepath, ...) of a path where no file is
FileNotFoundError(path) == Raise("FileNotFoundError", "No such file or directory", path)

\* shapeio.is_compressed
is_compressed(fs, filepath) ==
    IF ~fs[filepath].exists THEN FileNotFoundError(filepath)
    ELSE Let(read(detect_encoding(fs[filepath].bytes), fs[filepath].bytes, PyInt(32)),
             LAMBDA header :
             IF ~header.ok THEN Ok(PyBool(TRUE))
             ELSE IF StartsWith(header.val, PLAIN_HEADER) THEN Ok(PyBool(FALSE))
             ELSE Ok(None))

\* shapeio.is_shape
is_shape(fs, filepath) ==
    Let(is_compressed(fs, filepath), LAMBDA c :
        IF ~c.ok THEN c ELSE Ok(PyBool(c.val # None)))

(***************************************************************************)
(* is_compressed and is_shape on files: texts in the encodings the module  *)
(* reads, whole or with bytes after them that are no text.                 *)
(***************************************************************************)
\* the two bytes of a character in UTF-16, low byte first
utf16_unit(c) == IF c = "BOM" THEN BOM_UTF16_LE ELSE <<Ord[c], 0>>

\* text.encode('utf-16-le'), as the file dump writes
utf16_le_encode(t) == [k \in 1..2 * Len(t) |-> utf16_unit(t[(k + 1) \div 2])[2 - (k % 2)]]

\* text.encode('utf-8') of a text of ASCII characters
utf8_encode(t) == [k \in 1..Len(t) |-> Ord[t[k]]]

\* how a file begins, as text: the signature the encoder writes, the
\* signature of a compressed shape, another sub-tag, the first eight
\* characters of the two, a line of a script, nothing
DetectHeads == <<
    SubSeq(SIGNATURE, 2, Len(SIGNATURE)),
    FirstLines[2],
    FirstLines[3],
    SubSeq(PLAIN_HEADER, 1, 8),
    SubSeq(FirstLines[2], 1, 8),
    FirstLines[4],
    <<>> >>

\* how the text is stored: "utf-16" is what dump writes (utf-16-le after
\* the byte order mark)
DetectCodings == {"utf-8", "utf-8-sig", "utf-16", "utf-16-le"}

\* the bytes after the text: none, deflated data, the first byte of a
\* three-byte sequence, a line of text in one byte per character
DetectTails == {<<>>, <<120, 156, 255, 0, 129>>, <<226>>, <<40, 32, 41, 10>>}

\* the first bytes of a PNG image
PNG == <<137, 80, 78, 71, 13, 10, 26, 10, 0, 0, 0, 13>>

DetectParams ==
    [head : DOMAIN DetectHeads, coding : DetectCodings, tail : DetectTails]
    \cup [head : {7}, coding : {"bytes"}, tail : {PNG}]
    \cup [head : {7}, coding : {"missing"}, tail : {<<>>}]

\* the bytes of the file
DetectBytes(p) ==
    (CASE p.coding = "utf-8" -> utf8_encode(DetectHeads[p.head])
       [] p.coding = "utf-8-sig" -> BOM_UTF8 \o utf8_encode(DetectHeads[p.head])
       [] p.coding = "utf-16" -> utf16_le_encode(<<"BOM">> \o DetectHeads[p.head])
       [] p.coding = "utf-16-le" -> utf16_le_encode(DetectHeads[p.head])
       [] OTHER -> <<>>) \o p.tail

InitDetect ==
    /\ inp \in DetectParams
    /\ files = [NoFiles EXCEPT !["a.s"] = IF inp.coding = "missing" THEN NoFile
                                          ELSE File(DetectBytes(inp))]
    /\ text = <<>>
    /\ pc = "start"
    /\ res = Pending
    /\ attempted = <<>>
    /\ tables = <<>>
    /\ calls = <<>>

\* shapeio.is_compressed("a.s")
IsCompressed ==
    /\ pc = "start"
    /\ res' = is_compressed(files, "a.s")
    /\ pc' = "is_compressed"
    /\ UNCHANGED <<inp, text, attempted, tables, files, calls>>

\* shapeio.is_shape("a.s")
IsShape ==
    /\ pc = "start"
    /\ res' = is_shape(files, "a.s")
    /\ pc' = "is_shape"
    /\ UNCHANGED <<inp, text, attempted, tables, files, calls>>

NextDetect == IsCompressed \/ IsShape

SpecDetect == InitDetect /\ [][NextDetect]_vars

\* the first eight bytes of the file at a path
First8(path) ==
    SubSeq(files[path].bytes, 1, IF Len(files[path].bytes) < 8 THEN Len(files[path].bytes) ELSE 8)

DecodedSignatureDecides ==
    /\ (pc = "is_compressed" /\ inp.coding \in DetectCodings /\ inp.tail = <<>>) =>
           res = Ok(IF inp.head = 1 THEN PyBool(FALSE) ELSE None)
    /\ (pc = "is_compressed" /\ inp.coding \in {"utf-8", "utf-8-sig", "bytes"}
           /\ \E k \in DOMAIN inp.tail : inp.tail[k] \in {137, 156}) =>
           res = Ok(PyBool(TRUE))
    /\ (pc = "is_shape" /\ files["a.s"].exists) =>
           res = Ok(PyBool(is_compressed(files, "a.s").val # None))
    /\ (pc # "start" /\ ~files["a.s"].exists) => res.err = "FileNotFoundError"

\* is_compressed has returned False for the file dump writes, whose first
\* eight bytes are not SIMISA@@
C16_Utf16Plain ==
    /\ pc = "is_compressed"
    /\ inp.coding = "utf-16"
    /\ First8("a.s") # utf8_encode(DetectHeads[4])
    /\ res = Ok(PyBool(FALSE))

(***************************************************************************)
(* shapeio.load, statement by statement: the test of is_compressed, the    *)
(* reading of the text, the decoding.  calls holds what load has called.   *)
(***************************************************************************)
\* raise ShapeCompressedError
ShapeCompressedError ==
    Raise("ShapeCompressedError", "Cannot load shape while it is compressed.", "load")

\* a variant that takes None, the value for a file not known, for the
\* true one
Truthy_unknown(c) == c.val = None

\* the truth of the value is_compressed returned, as the if statement of
\* load and the if statements of compress and decompress take it
Truthy(c) == c.val = PyBool(TRUE)

LoadParams ==
    [line : DOMAIN FirstLines, coding : DetectCodings,
     tail : {<<>>, <<120, 156, 255, 0, 129>>, <<226>>}, empty : {0, 16}]
    \cup [line : {6}, coding : {"missing"}, tail : {<<>>}, empty : {16}]

\* the text stored in the file, without the byte order mark
LoadText(p) ==
    SubSeq(FirstLines[p.line], IF p.line = 1 THEN 2 ELSE 1, Len(FirstLines[p.line]))
    \o DocBody([f1 |-> 3, f2 |-> 2, bad |-> 0, fault |-> "none", gone |-> 0,
                empty |-> p.empty])

LoadBytes(p) ==
    (CASE p.coding = "utf-8" -> utf8_encode(LoadText(p))
       [] p.coding = "utf-8-sig" -> BOM_UTF8 \o utf8_encode(LoadText(p))
       [] p.coding = "utf-16" -> utf16_le_encode(<<"BOM">> \o LoadText(p))
       [] p.coding = "utf-16-le" -> utf16_le_encode(LoadText(p))
       [] OTHER -> <<>>) \o p.tail

InitLoad ==
    /\ inp \in LoadParams
    /\ files = [NoFiles EXCEPT !["a.s"] = IF inp.coding = "missing" THEN NoFile
                                          ELSE File(LoadBytes(inp))]
    /\ text = <<>>
    /\ pc = "load"
    /\ res = Pending
    /\ attempted = <<>>
    /\ tables = <<>>
    /\ calls = <<>>

\* if is_compressed(filepath): raise ShapeCompressedError(...)
LoadCheck ==
    /\ pc = "load"
    /\ calls' = Append(calls, "is_compressed")
    /\ IF ~is_compressed(files, "a.s").ok
       THEN res' = is_compressed(files, "a.s") /\ pc' = "raised"
       ELSE IF Truthy(is_compressed(files, "a.s"))
       THEN res' = ShapeCompressedError /\ pc' = "raised"
       ELSE res' = res /\ pc' = "read"
    /\ UNCHANGED <<inp, text, attempted, tables, files>>

\* with open(filepath, 'r', encoding=_detect_encoding(filepath)) as f:
\*     text = f.read()
LoadRead ==
    /\ pc = "read"
    /\ calls' = Append(calls, "read")
    /\ IF read(detect_encoding(files["a.s"].bytes), files["a.s"].bytes, None).ok
       THEN /\ text' = read(detect_encoding(files["a.s"].bytes), files["a.s"].bytes, None).val
            /\ res' = res
            /\ pc' = "decode"
       ELSE /\ text' = text
            /\ res' = read(detect_encoding(files["a.s"].bytes), files["a.s"].bytes, None)
            /\ pc' = "raised"
    /\ UNCHANGED <<inp, attempted, tables, files>>

\* return decoder.decode(text)
LoadDecode ==
    /\ pc = "decode"
    /\ calls' = Append(calls, "decode")
    /\ res' = ShapeParser_parse(text)
    /\ pc' = IF res'.ok THEN "loaded" ELSE "raised"
    /\ UNCHANGED <<inp, text, attempted, tables, files>>

NextLoad == LoadCheck \/ LoadRead \/ LoadDecode

SpecLoad == InitLoad /\ [][NextLoad]_vars

\* whether load has called what
Called(what) == \E k \in DOMAIN calls : calls[k] = what

C17_Loaded ==
    pc = "loaded" /\ is_compressed(files, "a.s") = Ok(None)

(***************************************************************************)
(* shapeio.compress and shapeio.decompress.  The helper is the             *)
(* TokenFileHandler of the DLL behind compression.compress_shape and       *)
(* decompress_shape: what it does is not in the source, so each call ends  *)
(* in one of the outcomes of HelperOutcomes.                               *)
(***************************************************************************)
\* what an operation on files gives: the files after it, the calls of the
\* helper so far, and what it returned or raised
Effect(fs, cs, r) == [files |-> fs, calls |-> cs, res |-> r]

\* a variant of copy that moves the file
copy_rename(fs, old_filepath, new_filepath) ==
    IF ~fs[old_filepath].exists THEN Effect(fs, <<>>, FileNotFoundError(old_filepath))
    ELSE Effect([fs EXCEPT ![new_filepath] = fs[old_filepath], ![old_filepath] = NoFile],
                <<>>, Ok(None))

\* shapeio.copy: shutil.copyfile(old_filepath, new_filepath)
copy(fs, old_filepath, new_filepath) ==
    IF ~fs[old_filepath].exists THEN Effect(fs, <<>>, FileNotFoundError(old_filepath))
    ELSE Effect([fs EXCEPT ![new_filepath] = fs[old_filepath]], <<>>, Ok(None))

\* how a call of the helper ends: check_dependencies or the loading of the
\* DLL raises, or the handler returns True after writing the output file,
\* or it returns False and writes nothing
HelperOutcomes == {"raise", "True", "False"}

\* what the handler writes: a compressed shape, a plain one
COMPRESSED == utf8_encode(DetectHeads[2]) \o <<120, 156, 255, 0, 129>>
DECOMPRESSED == utf16_le_encode(SIGNATURE \o <<"s", "h", "a", "p", "e", " ", "(", " ", ")">>)

\* compression.compress_shape and compression.decompress_shape (name says
\* which), with the outcome of the call
helper(name, fs, cs, input_path, output_path, outcome) ==
    Effect(IF outcome = "True"
           THEN [fs EXCEPT ![output_path] =
                    File(IF name = "compress_shape" THEN COMPRESSED ELSE DECOMPRESSED)]
           ELSE fs,
           Append(cs, [name |-> name, input_path |-> input_path, output_path |-> output_path]),
           IF outcome = "raise"
           THEN Raise("EnvironmentError", "Mono is required to compress and decompress shapes",
                      name)
           ELSE Ok(PyBool(outcome = "True")))

\* the branch of compress and decompress that works in place: the helper
\* writes a temporary file, os.replace puts it in the place of the input,
\* and the finally clause removes what is left of it
in_place(h, input_filepath) ==
    IF h.res.ok
    THEN Effect([h.files EXCEPT ![input_filepath] = h.files["tmp"], !["tmp"] = NoFile],
                h.calls, Ok(PyBool(TRUE)))
    ELSE Effect([h.files EXCEPT !["tmp"] = NoFile], h.calls, h.res)

\* the body of compress and of decompress after the call of is_compressed;
\* done says that the file is already what is asked for
convert(name, done, fs, cs, input_filepath, output_filepath, outcome) ==
    IF output_filepath = None
    THEN IF done THEN Effect(fs, cs, Ok(PyBool(FALSE)))
         ELSE in_place(helper(name, [fs EXCEPT !["tmp"] = File(<<>>)], cs,
                              input_filepath, "tmp", outcome),
                       input_filepath)
    ELSE IF done
    THEN Effect(IF input_filepath # output_filepath.s
                THEN copy(fs, input_filepath, output_filepath.s).files
                ELSE fs,
                cs, Ok(PyBool(FALSE)))
    ELSE helper(name, fs, cs, input_filepath, output_filepath.s, outcome)

\* shapeio.compress
compress(fs, cs, input_filepath, output_filepath, outcome) ==
    IF ~is_compressed(fs, input_filepath).ok
    THEN Effect(fs, cs, is_compressed(fs, input_filepath))
    ELSE convert("compress_shape", Truthy(is_compressed(fs, input_filepath)),
                 fs, cs, input_filepath, output_filepath, outcome)

\* shapeio.decompress
decompress(fs, cs, input_filepath, output_filepath, outcome) ==
    IF ~is_compressed(fs, input_filepath).ok
    THEN Effect(fs, cs, is_compressed(fs, input_filepath))
    ELSE convert("decompress_shape", ~Truthy(is_compressed(fs, input_filepath)),
                 fs, cs, input_filepath, output_filepath, outcome)

\* the input file: one of the files of DetectParams that are whole or
\* end in deflated data, the image, none; the output path: none, that of the input,
\* another; the file at the other path: none, or one to be overwritten
CompressParams ==
    [file : {p \in DetectParams :
                \/ p.tail \in {<<>>, <<120, 156, 255, 0, 129>>} /\ p.head < 4
                \/ p.coding \in {"bytes", "missing"}},
     output : {None, PyStr("a.s"), PyStr("b.s")},
     other : {NoFile, File(<<104, 105>>)}]

CompressFiles(p) ==
    [NoFiles EXCEPT !["a.s"] = IF p.file.coding = "missing" THEN NoFile
                                ELSE File(DetectBytes(p.file)),
                    !["b.s"] = p.other]

InitCompress ==
    /\ inp \in CompressParams
    /\ files = CompressFiles(inp)
    /\ text = <<>>
    /\ pc = "start"
    /\ res = Pending
    /\ attempted = <<>>
    /\ tables = <<>>
    /\ calls = <<>>

\* shapeio.compress("a.s", dll, output)
Compress ==
    /\ pc = "start"
    /\ \E outcome \in HelperOutcomes :
           /\ files' = compress(files, calls, "a.s", inp.output, outcome).files
           /\ calls' = compress(files, calls, "a.s", inp.output, outcome).calls
           /\ res' = compress(files, calls, "a.s", inp.output, outcome).res
    /\ pc' = "compress"
    /\ UNCHANGED <<inp, text, attempted, tables>>

\* shapeio.decompress("a.s", dll, output)
Decompress ==
    /\ pc = "start"
    /\ \E outcome \in HelperOutcomes :
           /\ files' = decompress(files, calls, "a.s", inp.output, outcome).files
           /\ calls' = decompress(files, calls, "a.s", inp.output, outcome).calls
           /\ res' = decompress(files, calls, "a.s", inp.output, outcome).res
    /\ pc' = "decompress"
    /\ UNCHANGED <<inp, text, attempted, tables>>

NextCompress == Compress \/ Decompress

SpecCompress == InitCompress /\ [][NextCompress]_vars

\* the operation was asked for what the file already is: compress on a
\* file is_compressed says True about, decompress on one it says False or
\* None about
AlreadyDone ==
    \/ pc = "compress" /\ is_compressed(CompressFiles(inp), "a.s") = Ok(PyBool(TRUE))
    \/ pc = "decompress"
       /\ is_compressed(CompressFiles(inp), "a.s") \in {Ok(PyBool(FALSE)), Ok(None)}

C18_SamePath ==
    /\ pc = "decompress"
    /\ AlreadyDone
    /\ inp.output = PyStr("a.s")
    /\ files = CompressFiles(inp)

(***************************************************************************)
(* _serialize_items_in_block under the layout policies of SpecList: the    *)
(* empty list, and the grouping of the items                               *)
(***************************************************************************)
\* a list has been serialized under a layout policy
Serialized == inp.kind = "layout" /\ pc \in {"text", "parsed"}

\* C19: an empty list is serialized to the single line
\* <indent>name ( 0 ) under every layout policy: newline_after_header and
\* newline_before_closing have no effect on it.
C19_EmptyList ==
    (Serialized /\ inp.n = 0) =>
        text = get_indent(<<"\t">>, inp.depth) \o W[inp.list]
               \o <<" ", "(", " ", "0", " ", ")">>

\* an empty list has been serialized, at depth 1, under the policy that
\* puts newlines after the header and before the closing parenthesis
C19_Witness ==
    /\ Serialized
    /\ inp.n = 0
    /\ inp.depth = 1
    /\ inp.after_header
    /\ inp.before_closing
    /\ Find(text, "\n", 1) = 0

\* ceil(n / k)
CeilDiv(n, k) == (n + k - 1) \div k

\* the groups of n texts, k to a group and what is left in the last, each
\* joined by single spaces
Groups(texts, k) ==
    [j \in 1..CeilDiv(Len(texts), k) |->
        Join(SP, [i \in 1..(IF j * k <= Len(texts) THEN k ELSE Len(texts) - (j - 1) * k) |->
                      texts[(j - 1) * k + i]])]

\* the texts of the items of the list serialized, as the block holds them
ItemTexts ==
    [k \in 1..inp.n |->
        Strip(item_serializer(<<"\t">>, inp.list, Items(inp.list, inp.n)[k], inp.depth + 1).val)]

\* what is between two groups: a newline and the indentation of the items,
\* which is left out when items_per_line is None and no newline is put
\* before the closing parenthesis
GroupBreak ==
    NL \o (IF inp.per = None /\ ~inp.before_closing THEN <<>>
           ELSE get_indent(<<"\t">>, inp.depth + 1))

OnePerLineInline ==
    /\ Serialized
    /\ inp.n >= 1
    /\ inp.per = PyInt(1)
    /\ ~inp.after_header
    /\ ~inp.before_closing

\* C21: with items_per_line = 1, newline_after_header = False and
\* newline_before_closing = False a non-empty list serializes to a single
\* line: the header, every item and the closing parenthesis separated by
\* single spaces.
C21_SingleLine ==
    OnePerLineInline =>
        text = get_indent(<<"\t">>, inp.depth) \o W[inp.list] \o OPEN \o NatStr(inp.n)
               \o SP \o Join(SP, ItemTexts) \o CLOSE

\* what the loop does under that policy: the first item joins the header,
\* and each other item is put on a line of its own, indented
FirstItemInline ==
    OnePerLineInline =>
        text = get_indent(<<"\t">>, inp.depth) \o W[inp.list] \o OPEN \o NatStr(inp.n)
               \o SP \o Join(NL \o get_indent(<<"\t">>, inp.depth + 1), ItemTexts) \o CLOSE

\* three points have been serialized under that policy, to three lines
C21_Wrapped ==
    /\ OnePerLineInline
    /\ inp.list = "points"
    /\ inp.n = 3
    /\ Len(SelectSeq(text, LAMBDA c : c = "\n")) = 2

\* the whitespace a line of text begins with
LeadingSpace(line) == SubSeq(line, 1, LStripLen(line, 1) - 1)

\* the lines of the serialized list
ListLines == Lines(text)

\* the line holds the closing parenthesis alone
ClosingLine(line) == Strip(line) = <<")">>

\* a list whose items are written on one line each has been serialized
\* and holds items
FlatSerialized == Serialized /\ inp.list \in {"points", "tex_idxs"} /\ inp.n >= 1

\* C22: for a list serialized at depth d with indent unit u the header
\* line and a closing-parenthesis line start with exactly d copies of u,
\* and every line after the header line that holds items starts with
\* exactly d + 1 copies of u, for every layout policy.
C22_Indentation ==
    FlatSerialized =>
        \A j \in DOMAIN ListLines :
            LeadingSpace(ListLines[j]) =
                get_indent(<<"\t">>, IF j = 1 \/ ClosingLine(ListLines[j]) THEN inp.depth
                                     ELSE inp.depth + 1)

\* the policy under which the loop appends the line of items as it is:
\* all items on one line, after a newline, the closing parenthesis on the
\* same line
Unindented == inp.per = None /\ inp.after_header /\ ~inp.before_closing

\* what the function does: the lines are indented as C22 says under every
\* policy but Unindented, under which the line of the items starts with
\* the first item, at any depth
IndentedUnlessUnwrapped ==
    FlatSerialized =>
        \A j \in DOMAIN ListLines :
            LeadingSpace(ListLines[j]) =
                IF j = 1 \/ ClosingLine(ListLines[j]) THEN get_indent(<<"\t">>, inp.depth)
                ELSE IF Unindented THEN <<>>
                ELSE get_indent(<<"\t">>, inp.depth + 1)

\* at depth 1 a line of items has been written without indentation
C22_Flush ==
    /\ FlatSerialized
    /\ Unindented
    /\ inp.depth = 1
    /\ Len(ListLines) = 2
    /\ LeadingSpace(ListLines[2]) = <<>>

(***************************************************************************)
(* The serializers on values of the declared type and on other values      *)
(***************************************************************************)
TypeSerializers ==
    {"int", "float", "str", "hex", "named_shader", "image", "dlevel_selection",
     "vector", "point", "texture", "shape_header", "shape"}

\* values handed to a serializer: numbers, a text, None, the two bools,
\* records, and records with a field of another type
TypeValues == <<
    PyInt(3),
    PyInt(0 - 7),
    PyFloat(15, 0 - 1),
    PyStr(<<"a", "B">>),
    None,
    PyBool(TRUE),
    PyBool(FALSE),
    Vector(PyFloat(1, 0), PyFloat(25, 0 - 1), PyFloat(0, 0)),
    Vector(PyInt(1), PyFloat(25, 0 - 1), PyFloat(0, 0)),
    Vector(PyStr(<<"1">>), PyFloat(25, 0 - 1), PyFloat(0, 0)),
    Vector(PyFloat(1, 0), PyBool(TRUE), PyFloat(0, 0)),
    Vector(PyFloat(1, 0), PyFloat(25, 0 - 1), None),
    Point(PyFloat(1, 0), PyFloat(2, 0), PyFloat(3, 0)),
    Point(PyFloat(1, 0), PyFloat(2, 0), PyStr(<<"3">>)),
    Texture(PyInt(0), PyInt(1), PyFloat(5, 0 - 1), PyStr(<<"f", "f", "0", "0", "0", "0", "0", "0">>)),
    Texture(PyBool(TRUE), PyInt(1), PyFloat(5, 0 - 1), PyStr(<<"f", "f", "0", "0", "0", "0", "0", "0">>)),
    Texture(PyFloat(2, 0), PyInt(1), PyFloat(5, 0 - 1), PyStr(<<"f", "f", "0", "0", "0", "0", "0", "0">>)),
    Texture(PyInt(0), PyInt(1), PyFloat(5, 0 - 1), PyInt(0)),
    [type |-> "ShapeHeader", flags1 |-> PyStr(FLAGS[3]), flags2 |-> PyStr(FLAGS[2])],
    [type |-> "ShapeHeader", flags1 |-> PyStr(FLAGS[3]), flags2 |-> None] >>

\* serializer.serialize(value) of the serializer of a kind, with tabs
serialize_as(kind, value) ==
    CASE kind = "int" -> IntSerializer_serialize(value)
      [] kind = "float" -> FloatSerializer_serialize(value)
      [] kind = "str" -> StrSerializer_serialize(value)
      [] kind = "hex" -> HexSerializer_serialize(value)
      [] kind = "named_shader" -> NamedShaderSerializer_serialize(<<"\t">>, value, 0)
      [] kind = "image" -> ImageSerializer_serialize(<<"\t">>, value, 0)
      [] kind = "dlevel_selection" ->
             DistanceLevelSelectionSerializer_serialize(<<"\t">>, value, 0)
      [] kind = "vector" -> VectorSerializer_serialize(<<"\t">>, value, 0)
      [] kind = "point" -> PointSerializer_serialize(<<"\t">>, value, 0)
      [] kind = "texture" -> TextureSerializer_serialize(<<"\t">>, value, 0)
      [] kind = "shape_header" -> ShapeHeaderSerializer_serialize(<<"\t">>, value, 0)
      [] kind = "shape" -> ShapeSerializer_serialize(<<"\t">>, value, 0)

InitType ==
    /\ inp \in [kind : TypeSerializers, value : DOMAIN TypeValues]
    /\ pc = "value"
    /\ text = <<>>
    /\ res = Pending
    /\ attempted = <<>>
    /\ tables = <<>>
    /\ files = NoFiles
    /\ calls = <<>>

\* serializer.serialize(value)
SerializeValue ==
    /\ pc = "value"
    /\ res' = serialize_as(inp.kind, TypeValues[inp.value])
    /\ text' = IF res'.ok THEN res'.val ELSE text
    /\ pc' = IF res'.ok THEN "serialized" ELSE "raised"
    /\ UNCHANGED <<inp, attempted, tables, files, calls>>

NextType == SerializeValue

SpecType == InitType /\ [][NextType]_vars

\* the types of the three-float records
FloatFields == [Vector |-> <<"x", "y", "z">>, Point |-> <<"x", "y", "z">>]

\* value is of the type the serializer of the kind declares, and so are
\* the fields it renders; ints are the types that count as int, and an
\* int counts as a float
OfDeclaredType(kind, value, ints) ==
    CASE kind \in {"int", "dlevel_selection"} -> value.type \in ints
      [] kind = "float" -> value.type \in ints \cup {"float"}
      [] kind \in {"str", "hex", "named_shader", "image"} -> value.type = "str"
      [] kind = "vector" ->
             /\ value.type = "Vector"
             /\ \A k \in 1..3 : value[FloatFields.Vector[k]].type \in ints \cup {"float"}
      [] kind = "point" ->
             /\ value.type = "Point"
             /\ \A k \in 1..3 : value[FloatFields.Point[k]].type \in ints \cup {"float"}
      [] kind = "texture" ->
             /\ value.type = "Texture"
             /\ value.image_index.type \in ints
             /\ value.filter_mode.type \in ints
             /\ value.mipmap_lod_bias.type \in ints \cup {"float"}
             /\ value.border_colour.type = "str"
      [] kind = "shape_header" ->
             /\ value.type = "ShapeHeader"
             /\ value.flags1.type = "str"
             /\ value.flags2.type = "str"
      [] kind = "shape" -> value.type = "Shape"

\* C23: every serializer raises a type error, before producing any text,
\* when it is given a value that is not of the declared type of the record
\* or field it renders; a mistyped value is never coerced into output.
C23_TypeChecked ==
    (pc # "value" /\ ~OfDeclaredType(inp.kind, TypeValues[inp.value], {"int"})) =>
        /\ pc = "raised"
        /\ res.err = "TypeError"
        /\ text = <<>>

\* what the serializers do: the test is isinstance, which a bool passes
\* where an int is declared; a value that passes is rendered, a bool as
\* True or False by the int serializer and as 1 or 0 by the float
\* serializer, and every other value raises TypeError
InstanceChecked ==
    pc # "value" =>
        /\ pc = "serialized" <=>
               OfDeclaredType(inp.kind, TypeValues[inp.value], {"int", "bool"})
        /\ pc = "raised" => res.err = "TypeError" /\ text = <<>>
        /\ (pc = "serialized" /\ inp.kind = "int" /\ inp.value = 6) =>
               text = <<"T", "r", "u", "e">>
        /\ (pc = "serialized" /\ inp.kind = "float" /\ inp.value = 7) => text = <<"0">>

\* the texture serializer has written the bool True where the index of
\* the image is declared
C23_BoolWritten ==
    /\ pc = "serialized"
    /\ inp.kind = "texture"
    /\ TypeValues[inp.value].image_index = PyBool(TRUE)
    /\ text = W.texture \o OPEN \o <<"T", "r", "u", "e", " ", "1", " ", "0", ".", "5", " ",
                                      "f", "f", "0", "0", "0", "0", "0", "0">> \o CLOSE

(***************************************************************************)
(* The parsers of the composite records on one block of their keyword,     *)
(* well formed or with a defect                                            *)
(***************************************************************************)
\* a well-formed block of each record type
FragmentTexts == [
    Vector |->
        <<"v", "e", "c", "t", "o", "r", " ", "(", " ", "1", " ", "2", ".",
        "5", " ", "-", "3", " ", ")">>,
    Point |->
        <<"p", "o", "i", "n", "t", " ", "(", " ", "1", " ", "2", ".", "5",
        " ", "-", "3", " ", ")">>,
    UVPoint |->
        <<"u", "v", "_", "p", "o", "i", "n", "t", " ", "(", " ", "0", ".",
        "5", " ", "-", "1", " ", ")">>,
    Colour |->
        <<"c", "o", "l", "o", "u", "r", " ", "(", " ", "1", " ", "0", ".",
        "5", " ", "0", " ", "0", ".", "2", "5", " ", ")">>,
    Matrix |->
        <<"m", "a", "t", "r", "i", "x", " ", "m", "1", " ", "(", " ", "1",
        " ", "0", " ", "0", " ", "0", " ", "1", " ", "0", " ", "0", " ", "0",
        " ", "1", " ", "0", " ", "0", " ", "0", " ", ")">>,
    Texture |->
        <<"t", "e", "x", "t", "u", "r", "e", " ", "(", " ", "0", " ", "1",
        " ", "0", ".", "5", " ", "f", "f", "0", "0", "0", "0", "0", "0", " ",
        ")">>,
    LightMaterial |->
        <<"l", "i", "g", "h", "t", "_", "m", "a", "t", "e", "r", "i", "a",
        "l", " ", "(", " ", "f", "f", "0", "0", "0", "0", "0", "0", " ", "0",
        " ", "1", " ", "2", " ", "3", " ", "4", ".", "5", " ", ")">>,
    VtxState |->
        <<"v", "t", "x", "_", "s", "t", "a", "t", "e", " ", "(", " ", "0",
        "0", "0", "0", "0", "0", "0", "0", " ", "0", " ", "-", "5", " ", "0",
        " ", "0", "0", "0", "0", "0", "0", "0", "2", " ", "3", " ", ")">>,
    PrimState |->
        <<"p", "r", "i", "m", "_", "s", "t", "a", "t", "e", " ", "p", "s",
        " ", "(", " ", "0", "0", "0", "0", "0", "0", "0", "0", " ", "0", " ",
        "t", "e", "x", "_", "i", "d", "x", "s", " ", "(", " ", "1", " ", "0",
        " ", ")", " ", "0", " ", "0", " ", "0", " ", "0", " ", "1", " ", ")">>
]

\* the defects: none; a token after the block; a token before it; a
\* letter glued to the front of the keyword; the block twice; a field too
\* many; a field too few; no parentheses; the keyword without its first
\* letter; whitespace around the block
Defects == {"none", "after", "before", "glued", "twice", "more", "fewer", "noparen",
            "short", "padded"}

\* the block t without its closing parenthesis and the blank before it
Unclosed(t) == SubSeq(t, 1, Len(t) - 2)

Defective(t, defect) ==
    CASE defect = "none" -> t
      [] defect = "after" -> t \o <<" ", "7">>
      [] defect = "before" -> <<"7", " ">> \o t
      [] defect = "glued" -> <<"x">> \o t
      [] defect = "twice" -> t \o SP \o t
      [] defect = "more" -> Unclosed(t) \o <<" ", "7">> \o CLOSE
      [] defect = "fewer" -> SubSeq(t, 1, RFind(Unclosed(t), " ") - 1) \o CLOSE
      [] defect = "noparen" ->
             SubSeq(t, 1, Find(t, "(", 1) - 1) \o SubSeq(Unclosed(t), Find(t, "(", 1) + 2, Len(t) - 2)
      [] defect = "short" -> Tail(t)
      [] defect = "padded" -> <<" ", "\t">> \o t \o NL

InitFragment ==
    /\ inp \in [type : DOMAIN FragmentTexts, defect : Defects]
    /\ text = Defective(FragmentTexts[inp.type], inp.defect)
    /\ pc = "text"
    /\ res = Pending
    /\ attempted = <<>>
    /\ tables = <<>>
    /\ files = NoFiles
    /\ calls = <<>>

\* parser.parse(text) of the parser of the record type
ParseFragment ==
    /\ pc = "text"
    /\ res' = record_parse(inp.type, text)
    /\ pc' = IF res'.ok THEN "parsed" ELSE "raised"
    /\ UNCHANGED <<inp, text, attempted, tables, files, calls>>

NextFragment == ParseFragment

SpecFragment == InitFragment /\ [][NextFragment]_vars

\* the text is one well-formed block of the record type, after trimming:
\* no defect, or whitespace around it; a vtx_state has five fields or six
WellFormed ==
    \/ inp.defect \in {"none", "padded"}
    \/ inp.type = "VtxState" /\ inp.defect = "fewer"

\* C24: a composite record parser accepts a text only when the whole text,
\* after trimming, is one well-formed block of its keyword with its arity
\* of fields; a wrong keyword, missing parentheses, too few or too many
\* fields, or tokens before or after the block raise an error.
C24_WholeBlock ==
    /\ pc = "parsed" => WellFormed
    /\ pc = "raised" => ~WellFormed

\* the parsers that match the trimmed text from its start
\* (PATTERN.match(text.strip())); the others search the text
MatchedFromStart == {"Vector", "Point", "UVPoint", "Colour", "Matrix"}

\* what the parsers do: the five that match from the start accept the
\* block with anything after it; the four that search accept it with
\* anything before or after it, a longer keyword that ends in theirs
\* included; a field too many or too few, missing parentheses and a
\* shortened keyword raise ValueError
FirstBlockParsed ==
    /\ pc # "text" =>
           (pc = "parsed" <=>
               \/ WellFormed
               \/ inp.defect \in {"after", "twice"}
               \/ inp.defect \in {"before", "glued"} /\ inp.type \notin MatchedFromStart)
    /\ pc = "parsed" => res = record_parse(inp.type, FragmentTexts[inp.type])
                        \/ (inp.type = "VtxState" /\ inp.defect = "fewer")
    /\ pc = "raised" => res.err = "ValueError"

\* a texture has been parsed from a text that holds a token before the
\* block
C24_Surrounded ==
    /\ pc = "parsed"
    /\ inp.type = "Texture"
    /\ inp.defect = "before"

(***************************************************************************)
(* Decoding documents that hold a lod_controls or an animations block      *)
(***************************************************************************)
\* what a document may hold for the two blocks: empty blocks, a
\* lod_control, unbalanced parentheses, text that is no block, a block
\* that holds the header of a table, nothing
LodTexts == <<
    <<"l", "o", "d", "_", "c", "o", "n", "t", "r", "o", "l", "s", " ", "(",
    " ", "0", " ", ")", "\n">>,
    <<"l", "o", "d", "_", "c", "o", "n", "t", "r", "o", "l", "s", " ", "(",
    " ", "1", "\n", "\t", "l", "o", "d", "_", "c", "o", "n", "t", "r", "o",
    "l", " ", "(", "\n", "\t", "\t", "d", "i", "s", "t", "a", "n", "c", "e",
    "_", "l", "e", "v", "e", "l", "s", "_", "h", "e", "a", "d", "e", "r",
    " ", "(", " ", "0", " ", ")", "\n", "\t", "\t", "d", "i", "s", "t", "a",
    "n", "c", "e", "_", "l", "e", "v", "e", "l", "s", " ", "(", " ", "0",
    " ", ")", "\n", "\t", ")", "\n", ")", "\n">>,
    <<"a", "n", "i", "m", "a", "t", "i", "o", "n", "s", " ", "(", " ", "0",
    " ", ")", "\n">>,
    <<"l", "o", "d", "_", "c", "o", "n", "t", "r", "o", "l", "s", " ", "(",
    " ", "1", " ", "(", " ", "(", "\n">>,
    <<"l", "o", "d", "_", "c", "o", "n", "t", "r", "o", "l", "s", " ", "(",
    " ", "x", " ", ")", " ", "a", "n", "i", "m", "a", "t", "i", "o", "n",
    "s", " ", "y", " ", ")", "\n">>,
    <<"l", "o", "d", "_", "c", "o", "n", "t", "r", "o", "l", "s", " ", "(",
    " ", "1", " ", "p", "o", "i", "n", "t", "s", " ", "(", " ", "0", " ",
    ")", " ", ")", "\n">>,
    <<"a", "n", "i", "m", "a", "t", "i", "o", "n", "s", " ", "(", " ", "1",
    " ", "c", "o", "l", "o", "u", "r", "s", " ", "(", " ", "3", " ", ")",
    " ", ")", "\n">>,
    <<>> >>

\* the texts of LodTexts that hold the header of a table
HoldsHeader == {6, 7}

LodParams == [lod : DOMAIN LodTexts, place : {"first", "last"}, f2 : DOMAIN FLAGS,
              empty : {0, 5, 16}]

\* the document without the two blocks
LodBase(p) == Document([f1 |-> 3, f2 |-> p.f2, bad |-> 0, fault |-> "none", gone |-> 0,
                        empty |-> p.empty])

\* the position in the document after which the text is put: after
\* shape ( and its line end, or after the last table
LodPlace(p) ==
    IF p.place = "first" THEN Len(SIGNATURE) + Len(W.shape) + 3 ELSE Len(LodBase(p)) - 2

InitLod ==
    /\ inp \in LodParams
    /\ text = SubSeq(LodBase(inp), 1, LodPlace(inp)) \o LodTexts[inp.lod]
              \o SubSeq(LodBase(inp), LodPlace(inp) + 1, Len(LodBase(inp)))
    /\ pc = "decode"
    /\ res = Pending
    /\ attempted = <<>>
    /\ tables = <<>>
    /\ files = NoFiles
    /\ calls = <<>>

\* ShapeDecoder().decode(text)
DecodeLod ==
    /\ pc = "decode"
    /\ pc' = "decoded"
    /\ res' = ShapeParser_parse(text)
    /\ UNCHANGED <<inp, text, attempted, tables, files, calls>>

NextLod == DecodeLod

SpecLod == InitLod /\ [][NextLod]_vars

\* C25: decoding never raises because of the presence, absence or content
\* of a lod_controls or animations block, and every decoded Shape has
\* lod_controls = [] and animations = [] whatever the text holds for them.
C25_LodIgnored ==
    pc = "decoded" =>
        /\ res = ShapeParser_parse(LodBase(inp))
        /\ res.ok
        /\ res.val.lod_controls = <<>>
        /\ res.val.animations = <<>>

\* what decode does: the two blocks are never looked for, and every Shape
\* has empty lod_controls and animations; the text of the blocks is part
\* of the text searched for the tables, though, so a header of a table in
\* it, when it stands before the table, is taken for the table
LodSearched ==
    pc = "decoded" =>
        /\ res.ok => res.val.lod_controls = <<>> /\ res.val.animations = <<>>
        /\ (inp.place = "last" \/ inp.lod \notin HoldsHeader) =>
               res.ok /\ res = ShapeParser_parse(LodBase(inp))
        /\ (inp.place = "first" /\ inp.lod = 6 /\ inp.empty # 5) =>
               res.ok /\ res.val.points = <<>>
                      /\ ShapeParser_parse(LodBase(inp)).val.points # <<>>
        /\ (inp.place = "first" /\ inp.lod = 7) => res.err = "ValueError"

\* decode has raised on a document whose tables are sound, because of
\* what stands in its animations block
C25_Raised ==
    /\ pc = "decoded"
    /\ inp.lod = 7
    /\ ~res.ok
    /\ ShapeParser_parse(LodBase(inp)).ok

(***************************************************************************)
(* _FloatSerializer and _FloatParser on floats: decimal numbers of up to 6 *)
(* significant digits at many magnitudes, and whole numbers of 7 digits,   *)
(* which format rounds                                                     *)
(***************************************************************************)
\* the digits of the floats, and their decimal exponents
Mantissas == {0, 1, 0 - 1, 15, 25, 0 - 5, 123456, 999999, 100001, 0 - 120305}
MaxExp == 8

\* whole numbers of 7 digits: ones that round down, up, half to even, and
\* up to the next power of ten
LongValues == {1234567, 1234565, 1234575, 9999995, 9999994, 1000001, 0 - 1234567}

FloatParams == [m : Mantissas, e : (0 - MaxExp)..MaxExp] \cup [m : LongValues, e : {0}]

\* the float of the parameters
FloatOf(p) == PyFloat(p.m, p.e)

InitFloat ==
    /\ inp \in FloatParams
    /\ pc = "value"
    /\ text = <<>>
    /\ res = Pending
    /\ attempted = <<>>
    /\ tables = <<>>
    /\ files = NoFiles
    /\ calls = <<>>

\* _FloatSerializer().serialize(value)
SerializeFloat ==
    /\ pc = "value"
    /\ res' = FloatSerializer_serialize(FloatOf(inp))
    /\ text' = IF res'.ok THEN res'.val ELSE text
    /\ pc' = IF res'.ok THEN "text" ELSE "raised"
    /\ UNCHANGED <<inp, attempted, tables, files, calls>>

\* _FloatParser().parse(text)
ParseFloat ==
    /\ pc = "text"
    /\ res' = FloatParser_parse(text)
    /\ pc' = IF res'.ok THEN "parsed" ELSE "raised"
    /\ UNCHANGED <<inp, text, attempted, tables, files, calls>>

NextFloat == SerializeFloat \/ ParseFloat

SpecFloat == InitFloat /\ [][NextFloat]_vars

\* the part of a rendered number before its exponent
MantissaText(t) ==
    SubSeq(t, 1, IF Find(t, "e", 1) = 0 THEN Len(t) ELSE Find(t, "e", 1) - 1)

\* the digits of a rendered number from its first digit that is not 0
Significant(t) ==
    Let(SelectSeq(MantissaText(t), LAMBDA c : c \notin {"-", "."}), LAMBDA ds :
        IF \A k \in DOMAIN ds : ds[k] = "0" THEN <<>>
        ELSE SubSeq(ds, CHOOSE k \in DOMAIN ds : ds[k] # "0" /\ \A j \in 1..(k - 1) : ds[j] = "0",
                    Len(ds)))

\* no zero and no decimal point ends the digits after a decimal point
Minimal(t) ==
    Find(MantissaText(t), ".", 1) # 0 =>
        MantissaText(t)[Len(MantissaText(t))] \notin {"0", "."}

Threads == {"t1", "t2"}

Instances == {"a", "b"}

\* the documents the threads decode: two sound ones that differ in the
\* header, one whose points block is damaged, one without images
ThreadDocs ==
    {[f1 |-> 1, f2 |-> 1, bad |-> 0, fault |-> "none", gone |-> 0, empty |-> 0],
     [f1 |-> 2, f2 |-> 3, bad |-> 0, fault |-> "none", gone |-> 0, empty |-> 0],
     [f1 |-> 1, f2 |-> 1, bad |-> 5, fault |-> "bad", gone |-> 0, empty |-> 0],
     [f1 |-> 1, f2 |-> 1, bad |-> 0, fault |-> "none", gone |-> 11, empty |-> 0]}

\* the shapes the threads encode
ThreadShapes ==
    {[f1 |-> 1, f2 |-> 2, n |-> 1, indent |-> 1, use_tabs |-> TRUE]}

ThreadCalls ==
    {[op |-> "decode", arg |-> d] : d \in ThreadDocs}
    \cup {[op |-> "encode", arg |-> s] : s \in ThreadShapes}

\* the call of each thread and the instance it is made on: thread t1 calls
\* instance a, thread t2 the same instance or instance b
ThreadParams ==
    {[call |-> c, on |-> o] :
        c \in [Threads -> ThreadCalls],
        o \in {o \in [Threads -> Instances] : o["t1"] = "a"}}

InitThreads ==
    /\ inp \in ThreadParams
    /\ text = [t \in Threads |->
                  IF inp.call[t].op = "decode" THEN Document(inp.call[t].arg) ELSE <<>>]
    /\ pc = [t \in Threads |-> IF inp.call[t].op = "decode" THEN "parse" ELSE "encode"]
    /\ res = [t \in Threads |-> Pending]
    /\ attempted = [t \in Threads |-> <<>>]
    /\ tables = [x \in Threads \cup Instances |-> <<>>]
    /\ files = NoFiles
    /\ calls = <<>>

\* a decoder that keeps the tables of the running call in an attribute of
\* the instance
frame_attribute(t) == inp.on[t]

\* where the statements of _ShapeParser.parse keep the tables they have
\* parsed: in local variables, which belong to the call of the thread
frame(t) == t

\* a thread runs the next statement of _ShapeParser.parse of its call; the
\* parsers the statement uses are attributes set in __init__ and only read
ThreadStatement ==
    \E t \in Threads :
        /\ pc[t] = "parse"
        /\ Len(attempted[t]) < Len(BlockNames)
        /\ attempted' = [attempted EXCEPT ![t] = Append(@, BlockNames[Len(@) + 1])]
        /\ Let(parse_statement(text[t], BlockNames[Len(attempted[t]) + 1]), LAMBDA r :
               IF r.ok
               THEN /\ tables' = [tables EXCEPT ![frame(t)] = Append(@, r.val)]
                    /\ UNCHANGED <<pc, res>>
               ELSE /\ pc' = [pc EXCEPT ![t] = "raised"]
                    /\ res' = [res EXCEPT ![t] = r]
                    /\ UNCHANGED tables)
        /\ UNCHANGED <<inp, text, files, calls>>

\* a thread runs return shape.Shape(...) of its call
ThreadReturn ==
    \E t \in Threads :
        /\ pc[t] = "parse"
        /\ Len(attempted[t]) = Len(BlockNames)
        /\ pc' = [pc EXCEPT ![t] = "returned"]
        /\ res' = [res EXCEPT ![t] = Ok(Shape(tables[frame(t)]))]
        /\ UNCHANGED <<inp, text, attempted, tables, files, calls>>

\* a thread runs ShapeEncoder.encode: the serializer is built in __init__,
\* serialize works on its arguments and on local variables
ThreadEncode ==
    \E t \in Threads :
        /\ pc[t] = "encode"
        /\ Let(ShapeEncoder_encode(inp.call[t].arg.indent, inp.call[t].arg.use_tabs,
                                   ShapeOf(inp.call[t].arg)), LAMBDA r :
               /\ res' = [res EXCEPT ![t] = r]
               /\ pc' = [pc EXCEPT ![t] = IF r.ok THEN "returned" ELSE "raised"])
        /\ UNCHANGED <<inp, text, attempted, tables, files, calls>>

NextThreads == ThreadStatement \/ ThreadReturn \/ ThreadEncode

SpecThreads == InitThreads /\ [][NextThreads]_vars

\* the result of the call of thread t when no other call runs
Alone(t) ==
    IF inp.call[t].op = "decode"
    THEN ShapeParser_parse(text[t])
    ELSE ShapeEncoder_encode(inp.call[t].arg.indent, inp.call[t].arg.use_tabs,
                             ShapeOf(inp.call[t].arg))

C27_Interleaved ==
    /\ inp.on["t2"] = "a"
    /\ \A t \in Threads :
          pc[t] = "parse" /\ Len(attempted[t]) \in 3..(Len(BlockNames) - 3)
    /\ inp.call["t1"] # inp.call["t2"]

(***************************************************************************)
(* The span _find_block returns                                            *)
(***************************************************************************)
\* where the first header of points begins in the text of SpecBlock: the
\* first head begins with it, the second holds it after two characters
HeaderStart == IF inp.head = 1 THEN 1 ELSE 3

\* C28: when the depth of the scan comes back to zero, _find_block returns
\* the text from the first character of the keyword of the first header to
\* the parenthesis that closes the first one opened after the keyword: the
\* depth is at least 1 from that opening parenthesis to the character
\* before the last of the span and 0 at the last, which is a closing
\* parenthesis, so the span is balanced and holds nothing of what follows
\* the block.
C28_BlockSpan ==
    (pc = "found" /\ inp.head \in {1, 2}) =>
        Let(Find(text, "(", HeaderStart), LAMBDA open :
            /\ res.ok <=> ~Exhausted(text, open)
            /\ res.ok =>
                  Let(HeaderStart + Len(res.val) - 1, LAMBDA close :
                      /\ close \in open..Len(text)
                      /\ res.val = SubSeq(text, HeaderStart, close)
                      /\ Lower(SubSeq(res.val, 1, Len(W.points))) = W.points
                      /\ text[close] = ")"
                      /\ \A j \in open..(close - 1) : Depth(text, open, j) >= 1
                      /\ Depth(text, open, close) = 0
                      /\ Balanced(res.val)))

\* the span of a block that holds a pair of parentheses and is followed by
\* more text with a closing parenthesis: `Points(2 ())` out of
\* `x Points(2 ())x)`
C28_Witness ==
    /\ pc = "found" /\ inp.head = 2 /\ inp.tail = <<"(", ")", ")", "x", ")">>
    /\ res = Ok(<<"P", "o", "i", "n", "t", "s", "(", "2", " ", "(", ")", ")">>)

(***************************************************************************)
(* Decoding a document whose matrix has the name of a table                *)
(***************************************************************************)
\* the names given to the matrix: the one of the sample, names that are the
\* keyword of a table written after matrices (one of them in another letter
\* case), the keyword of a table written before, and a name that ends in a
\* keyword
MatrixNames == <<
    <<"M", "A", "I", "N">>,
    <<"i", "m", "a", "g", "e", "s">>,
    <<"I", "m", "a", "g", "e", "s">>,
    <<"t", "e", "x", "t", "u", "r", "e", "s">>,
    <<"p", "r", "i", "m", "_", "s", "t", "a", "t", "e", "s">>,
    <<"p", "o", "i", "n", "t", "s">>,
    <<"x", "_", "i", "m", "a", "g", "e", "s">>>>

\* the table whose keyword the matrix name k ends in, when that table is
\* looked for after matrices; 0 when there is none
TableNamed == <<0, 11, 11, 12, 16, 0, 11>>

\* the documents: the matrix name, the second field of the header, with or
\* without the block points, uv_points with an item or empty
NameParams ==
    [name : DOMAIN MatrixNames, f2 : DOMAIN FLAGS, gone : {0, 5}, empty : {0, 6}]

\* the document with the matrix named MAIN
NameBase(p) == Document([f1 |-> 3, f2 |-> p.f2, bad |-> 0, fault |-> "none",
                         gone |-> p.gone, empty |-> p.empty])

\* the name MAIN stands at position i of b
NameAt(b, i) == \A k \in 1..4 : b[i + k - 1] = MatrixNames[1][k]

\* where the name of the matrix begins in the document b
NamePlace(b) ==
    CHOOSE i \in 1..(Len(b) - 3) :
        NameAt(b, i) /\ \A j \in 1..(i - 1) : ~NameAt(b, j)

InitName ==
    /\ inp \in NameParams
    /\ text = Let(NameBase(inp), LAMBDA b :
                  SubSeq(b, 1, NamePlace(b) - 1) \o MatrixNames[inp.name]
                  \o SubSeq(b, NamePlace(b) + 4, Len(b)))
    /\ pc = "decode"
    /\ res = Pending
    /\ attempted = <<>>
    /\ tables = <<>>
    /\ files = NoFiles
    /\ calls = <<>>

\* ShapeDecoder().decode(text) of a document with a named matrix
DecodeName ==
    /\ pc = "decode"
    /\ pc' = "named"
    /\ res' = ShapeParser_parse(text)
    /\ UNCHANGED <<inp, text, attempted, tables, files, calls>>

NextName == DecodeName

SpecName == InitName /\ [][NextName]_vars

\* the Shape of the document with the matrix named MAIN, the name of the
\* matrix replaced by the one of the document
NamedShape(p) ==
    Let(ShapeParser_parse(NameBase(p)).val, LAMBDA s :
        [s EXCEPT !.matrices[1].name = PyStr(MatrixNames[p.name])])

\* C29: every table is parsed from the span of its own block: the name of
\* the matrix, whatever it is, changes nothing but the name in the decoded
\* matrix, and a document without the block points raises for points
\* instead of reading the block uv_points.
C29_OwnSpan ==
    pc = "named" =>
        IF inp.gone = 5
        THEN res = Raise("ValueError", "No valid block header found", "points")
        ELSE res = Ok(NamedShape(inp))

\* what decode does: the first text in the document that reads as a header
\* of the table is taken, wherever it stands.  A matrix whose name ends in
\* the keyword of a later table is taken for that table, and decode raises;
\* without the block points the block uv_points is read as points, which
\* raises unless uv_points is empty; in every other document the tables are
\* those of the blocks.
FirstHeaderTaken ==
    pc = "named" =>
        IF inp.gone = 5 /\ inp.empty # 6
        THEN res = Raise("ValueError", "Expected count items", "points")
        ELSE IF TableNamed[inp.name] # 0
        THEN /\ ~res.ok /\ res.err = "ValueError"
             /\ res.name = BlockNames[TableNamed[inp.name]]
             /\ res.msg = (IF inp.name = 3 THEN "Invalid block header"
                           ELSE "Expected count items")
        ELSE /\ res = Ok(NamedShape(inp))
             /\ inp.gone = 5 => res.val.points = <<>>

\* decode has raised for the table images on a document whose blocks are
\* all there and sound, the matrix being named images
C29_MatrixTaken ==
    /\ pc = "named" /\ inp.name = 2 /\ inp.gone = 0 /\ inp.empty = 0
    /\ res = Raise("ValueError", "Expected count items", "images")
    /\ ShapeParser_parse(NameBase(inp)).ok

(***************************************************************************)
(* compress and decompress in place, in SpecCompress                       *)
(***************************************************************************)
\* compress or decompress has ended after a call with output_filepath None
InPlaceEnded == pc \in {"compress", "decompress"} /\ inp.output = None

\* the file the helper writes when it succeeds
Converted == File(IF pc = "compress" THEN COMPRESSED ELSE DECOMPRESSED)

\* C30: in place, the input file is overwritten only by what the helper
\* has written on success: when the call has ended the temporary file does
\* not exist, the input file is either as it was or the file the helper
\* wrote, and the call has returned True only with the input file
\* converted; after a helper that raised or returned False the input file
\* is as it was.
C30_InPlaceSafe ==
    InPlaceEnded =>
        /\ ~files["tmp"].exists
        /\ files["a.s"] \in {CompressFiles(inp)["a.s"], Converted}
        /\ res = Ok(PyBool(TRUE)) => files["a.s"] = Converted
        /\ files["a.s"] # CompressFiles(inp)["a.s"] => res = Ok(PyBool(TRUE))

\* what the two functions do in place: the temporary file is gone in every
\* outcome and no other file is touched; when the helper raises, its
\* exception leaves the function and the input file is as it was; when the
\* helper returns, whatever it returns, the temporary file takes the place
\* of the input file and the function returns True
InPlaceReplaced ==
    InPlaceEnded =>
        /\ ~files["tmp"].exists
        /\ files["b.s"] = CompressFiles(inp)["b.s"]
        /\ calls = <<>> => files = CompressFiles(inp) /\ res # Ok(PyBool(TRUE))
        /\ (calls # <<>> /\ ~res.ok) =>
               files = CompressFiles(inp) /\ res.err = "EnvironmentError"
        /\ (calls # <<>> /\ res.ok) =>
               /\ res = Ok(PyBool(TRUE))
               /\ files["a.s"] \in {Converted, File(<<>>)}

\* compress has returned True after a helper that returned False: the
\* input file, a plain shape before the call, is empty
C30_Emptied ==
    /\ pc = "compress" /\ inp.output = None
    /\ Len(calls) = 1
    /\ is_compressed(CompressFiles(inp), "a.s") = Ok(PyBool(FALSE))
    /\ res = Ok(PyBool(TRUE))
    /\ files["a.s"] = File(<<>>)
    /\ ~files["tmp"].exists
====
